---- MODULE Spec2Model ----
(***************************************************************************)
(* Verification model of the god-engine simulation core: World (generate,  *)
(* tick), Agent (update, reproduce), VegetationMap, the terrain pipeline   *)
(* (flow, moisture, biome), and world serialization.                       *)
(*                                                                         *)
(* Numbers.  The engine computes with IEEE doubles and Float32Array        *)
(* storage.  The model computes the same formulas in fixed point:          *)
(*   - heights, moisture, positions, hunger, energy, speed, senseRadius    *)
(*     are integers in units of 1/Milli;                                   *)
(*   - vegetation densities are integers in units of 1/VegUnit.            *)
(* Every threshold and rate of the source is the source's number in that   *)
(* unit.  Divisions round down.                                            *)
(***************************************************************************)
EXTENDS Integers, Sequences, FiniteSets, TLC

Milli == 1000
VegUnit == 100000

\* ---------------------------------------------------------------------
\* Bounds of the exploration
\* ---------------------------------------------------------------------
MaxTick == 800
MaxResume == 2
MaxLag == 1
MaxOther == 1
MaxTwinTick == 330
SnapEvery == 7
MaxOpsTick == 330
MaxRegenAt == 3
MaxLoadTick == 3
MaxWrites == 1
MaxClearAt == 2
MaxSide == 3
MaxSeed == 15
MaxPopulation == 3
MaxDraws == 3
MaxStrideTick == 40
MaxSpacingTick == 650
MaxHeldCalls == 6

\* ---------------------------------------------------------------------
\* State
\* ---------------------------------------------------------------------
\* world      the World under observation
\* generated  world as generate last left it
\* seen       what each Agent.update of world's last tick saw
\* issued     the agent ids world has handed out so far, in order of issue
\* twin       a second World constructed from the same configuration
\* other      an unrelated World living in the same process
\* snapshot   the last payload serializeWorld returned for world
\* restored   the World deserializeWorld built from snapshot
\* fresh      whether snapshot described world when restored was built
\* mathRandom the function Math.random currently is
\* run        the World.tick call in progress on world, if any
\* outcome    how the last call on world ended
\* call       the last call made on world, one of its layers or a payload:
\*            its name, its arguments and what it returned
VARIABLES world, generated, seen, issued, twin, other, snapshot, restored, fresh,
          mathRandom, run, outcome, call

vars == <<world, generated, seen, issued, twin, other, snapshot, restored, fresh,
          mathRandom, run, outcome, call>>

\* ---------------------------------------------------------------------
\* Small arithmetic helpers
\* ---------------------------------------------------------------------
Min(a, b) == IF a < b THEN a ELSE b
Max(a, b) == IF a > b THEN a ELSE b

\* Math.sqrt, rounded down to an integer (n < 2^31): the root is built
\* bit by bit from bit 15 down
SqrtLimit == 46340
SqrtBit(n, r, b) == IF r + b <= SqrtLimit /\ (r + b) * (r + b) <= n THEN r + b ELSE r
Isqrt(n) ==
  LET r15 == SqrtBit(n, 0, 32768)
      r14 == SqrtBit(n, r15, 16384)
      r13 == SqrtBit(n, r14, 8192)
      r12 == SqrtBit(n, r13, 4096)
      r11 == SqrtBit(n, r12, 2048)
      r10 == SqrtBit(n, r11, 1024)
      r9 == SqrtBit(n, r10, 512)
      r8 == SqrtBit(n, r9, 256)
      r7 == SqrtBit(n, r8, 128)
      r6 == SqrtBit(n, r7, 64)
      r5 == SqrtBit(n, r6, 32)
      r4 == SqrtBit(n, r5, 16)
      r3 == SqrtBit(n, r4, 8)
      r2 == SqrtBit(n, r3, 4)
      r1 == SqrtBit(n, r2, 2)
  IN SqrtBit(n, r1, 1)

\* Math.sqrt(dx*dx + dy*dy) for dx, dy in 1/Milli, result in 1/Milli
Hypot(dx, dy) == Isqrt(dx * dx + dy * dy)

\* ---------------------------------------------------------------------
\* SeededRNG (rng.ts is not part of the sources; modelled from the spec:
\* one mixing state advanced by a fixed additive rule, the output a pure
\* mix of the state; getState/setState expose the raw integer state).
\* The state is kept at 16 bits.
\* ---------------------------------------------------------------------
RngMod == 65536
RngIncrement == 31221

RngSeed(seed) == seed % RngMod
RngAdvance(s) == (s + RngIncrement) % RngMod
RngMix(s) ==
  LET t1 == (s * 25173 + 13849) % RngMod
      t2 == (t1 \div 256) + (t1 % 256) * 256
  IN (t2 * 25173 + 13849) % RngMod

\* rng.next(): the state after the draw and the drawn value v, standing
\* for the float v / RngMod in [0,1)
RngNext(s) == [state |-> RngAdvance(s), value |-> RngMix(RngAdvance(s))]
\* rng.range(lo, hi) = lo + next() * (hi - lo), on a drawn value
RngRange(v, lo, hi) == lo + (v * (hi - lo)) \div RngMod
RngGetState(s) == s
RngSetState(s, newState) == newState

\* SeededRNG objects live in a store, a sequence of their states; a handle
\* is the position of an object in it.
\* a clone that is the object it was asked of
RngCloneShared(store, handle) == [store |-> store, handle |-> handle]

\* rng.clone(): a new object holding the current state of this one
RngClone(store, handle) ==
  [store |-> Append(store, store[handle]), handle |-> Len(store) + 1]

\* ---------------------------------------------------------------------
\* Enumerations
\* ---------------------------------------------------------------------
OCEAN == 0
BEACH == 1
PLAINS == 2
FOREST == 3
DESERT == 4
MOUNTAIN == 5
SNOW == 6
BiomeTypes == {OCEAN, BEACH, PLAINS, FOREST, DESERT, MOUNTAIN, SNOW}

IDLE == "IDLE"
FORAGING == "FORAGING"
EATING == "EATING"
REPRODUCING == "REPRODUCING"
DEAD == "DEAD"

AGENT_DEATH == "AGENT_DEATH"
AGENT_SPAWN == "AGENT_SPAWN"
WORLD_GENERATE == "WORLD_GENERATE"

\* ---------------------------------------------------------------------
\* WORLD_CONFIG
\* ---------------------------------------------------------------------
INITIAL_BASE == 250
INITIAL_MOISTURE_BONUS == 550
MAX_DENSITY(b) ==
  CASE b = OCEAN -> 0
    [] b = BEACH -> 10000
    [] b = PLAINS -> 50000
    [] b = FOREST -> 90000
    [] b = DESERT -> 5000
    [] b = MOUNTAIN -> 20000
    [] b = SNOW -> 0
GROWTH_RATE(b) ==
  CASE b = OCEAN -> 0
    [] b = BEACH -> 20
    [] b = PLAINS -> 100
    [] b = FOREST -> 200
    [] b = DESERT -> 10
    [] b = MOUNTAIN -> 50
    [] b = SNOW -> 0
MAX_HUNGER == 100000
HUNGER_RATE == 100
MOVE_COST == 50
MAX_ENERGY == 100000
ENERGY_DECAY == 20
SENSE_RADIUS == 5000
SPEED == 1000
HUNGER_THRESHOLD == 15000
ENERGY_REQUIRED == 35000
MIN_LOCAL_VEG == 15000
COOLDOWN_TICKS == 240
MUTATION_RATE == 100
MUTATION_AMOUNT == 200

\* ---------------------------------------------------------------------
\* Grid layers: a layer of a width x height grid is a sequence of
\* width*height values, data[y * width + x] being element y*width+x+1.
\* ---------------------------------------------------------------------
InBounds(w, h, x, y) == x >= 0 /\ x < w /\ y >= 0 /\ y < h
Idx(w, x, y) == y * w + x + 1
CellX(w, i) == (i - 1) % w
CellY(w, i) == (i - 1) \div w

\* HeightMap.get / MoistureMap.get / VegetationMap.get / FlowMap.getFlow
GridGet(data, w, h, x, y) == IF InBounds(w, h, x, y) THEN data[Idx(w, x, y)] ELSE 0

\* BiomeMap.get with another default
BiomeGetSnow(data, w, h, x, y) == IF InBounds(w, h, x, y) THEN data[Idx(w, x, y)] ELSE SNOW

\* BiomeMap.get
BiomeGet(data, w, h, x, y) == IF InBounds(w, h, x, y) THEN data[Idx(w, x, y)] ELSE OCEAN

\* FlowMap.getRiver
getRiver(data, w, h, x, y) == IF InBounds(w, h, x, y) THEN data[Idx(w, x, y)] = 1 ELSE FALSE

\* HeightMap.set and BiomeMap.set: the value is stored as it is
GridSet(data, w, h, x, y, value) ==
  IF InBounds(w, h, x, y) THEN [data EXCEPT ![Idx(w, x, y)] = value] ELSE data

\* VegetationMap.set: clamps the stored value to [0, 1]
VegSet(data, w, h, x, y, value) ==
  IF InBounds(w, h, x, y)
  THEN [data EXCEPT ![Idx(w, x, y)] = Max(0, Min(VegUnit, value))]
  ELSE data

\* A Float32Array element keeps 24 significant bits and a double 53:
\* between two neighbouring values an element can hold lie doubles it
\* cannot.  The model gives the elements the grid of 1/VegUnit and a
\* double passed to consume the grid of 1/(VegUnit * Float32Step).
Float32Step == 2

\* the element a Float32Array keeps for a double: the nearest on its
\* grid, a tie going to the even one
fround(double) ==
  LET below == double \div Float32Step
      rest == double % Float32Step
  IN IF 2 * rest > Float32Step \/ (2 * rest = Float32Step /\ below % 2 = 1)
     THEN below + 1
     ELSE below

\* consume taking the amount asked for, whatever the cell holds
ConsumeAsked(data, w, h, x, y, amount) ==
  [consumed |-> amount,
   data |-> VegSet(data, w, h, x, y,
                   fround(GridGet(data, w, h, x, y) * Float32Step - amount))]

\* VegetationMap.consume: the amount removed, a double, and the map
\* after it
VegConsume(data, w, h, x, y, amount) ==
  LET current == GridGet(data, w, h, x, y) * Float32Step
      consumed == Min(current, amount)
  IN [consumed |-> consumed,
      data |-> VegSet(data, w, h, x, y, fround(current - consumed))]

\* ---------------------------------------------------------------------
\* generateHeightMap: octaves of value noise, then min-max normalisation.
\* hash2D mixes 32-bit integers; the model mixes at 16 bits.
\* ---------------------------------------------------------------------
Octaves == 4
NoiseScale == 50

hash2D(x, y) ==
  LET n0 == (x * 9377 + y * 6007) % RngMod
      n1 == ((n0 + (n0 \div 8192)) * 25173) % RngMod
      n2 == (n1 + (n1 \div 256) * 7) % RngMod
  IN (n2 * Milli) \div RngMod

\* xf * xf * (3 - 2 * xf)
Smooth(xf) == (((xf * xf) \div Milli) * (3 * Milli - 2 * xf)) \div Milli

valueNoise(x, y, seed) ==
  LET xi == x \div Milli
      yi == y \div Milli
      xf == x - xi * Milli
      yf == y - yi * Milli
      v00 == hash2D(xi + seed, yi)
      v10 == hash2D(xi + 1 + seed, yi)
      v01 == hash2D(xi + seed, yi + 1)
      v11 == hash2D(xi + 1 + seed, yi + 1)
      sx == Smooth(xf)
      sy == Smooth(yf)
      v0 == (v00 * (Milli - sx) + v10 * sx) \div Milli
      v1 == (v01 * (Milli - sx) + v11 * sx) \div Milli
  IN (v0 * (Milli - sy) + v1 * sy) \div Milli

\* amplitude persistence^o (persistence 0.5) and frequency 2^o of octave o
Amplitude(o) == Milli \div (2 ^ o)
Frequency(o) == 2 ^ o

RECURSIVE OctaveSum(_, _, _, _)
OctaveSum(x, y, seed, o) ==
  IF o >= Octaves THEN 0
  ELSE (valueNoise(((x * Milli) \div NoiseScale) * Frequency(o),
                   ((y * Milli) \div NoiseScale) * Frequency(o),
                   seed + o * 1000) * Amplitude(o)) \div Milli
       + OctaveSum(x, y, seed, o + 1)

SeqMin(data) == CHOOSE v \in {data[i] : i \in DOMAIN data} : \A i \in DOMAIN data : v <= data[i]
SeqMax(data) == CHOOSE v \in {data[i] : i \in DOMAIN data} : \A i \in DOMAIN data : v >= data[i]

\* HeightMap.normalize
normalize(data) ==
  LET min == SeqMin(data)
      max == SeqMax(data)
      range == max - min
  IN IF range > 0
     THEN [i \in DOMAIN data |-> ((data[i] - min) * Milli) \div range]
     ELSE data

generateHeightMap(w, h, seed) ==
  normalize([i \in 1..(w * h) |-> OctaveSum(CellX(w, i), CellY(w, i), seed, 0)])

\* ---------------------------------------------------------------------
\* calculateFlow
\* ---------------------------------------------------------------------
RIVER_THRESHOLD == 100

\* the row-major list left unsorted
RowMajorCells(heights) == [k \in 1..Len(heights) |-> k]

\* cells.sort((a, b) => b.h - a.h) on the row-major list: a stable sort,
\* so equal heights keep row-major order
SortedCells(heights) ==
  LET n == Len(heights)
      rank == [i \in 1..n |->
                 Cardinality({j \in 1..n : heights[j] > heights[i]
                                           \/ (heights[j] = heights[i] /\ j < i)})]
  IN [k \in 1..n |-> CHOOSE i \in 1..n : rank[i] = k - 1]

Neighbors == << <<-1, -1>>, <<0, -1>>, <<1, -1>>, <<-1, 0>>, <<1, 0>>,
                <<-1, 1>>, <<0, 1>>, <<1, 1>> >>

\* the scan for the lowest neighbour: best is <<lowestX, lowestY, lowestH>>
RECURSIVE LowestNeighbor(_, _, _, _, _, _, _)
LowestNeighbor(heights, w, h, x, y, k, best) ==
  IF k > Len(Neighbors) THEN best
  ELSE LET nx == x + Neighbors[k][1]
           ny == y + Neighbors[k][2]
       IN IF InBounds(w, h, nx, ny) /\ GridGet(heights, w, h, nx, ny) < best[3]
          THEN LowestNeighbor(heights, w, h, x, y, k + 1,
                              <<nx, ny, GridGet(heights, w, h, nx, ny)>>)
          ELSE LowestNeighbor(heights, w, h, x, y, k + 1, best)

\* the iteration passing on the cell's own unit only
FlowStepUnit(heights, w, h, order, k, flow) ==
  LET idx == order[k]
      x == CellX(w, idx)
      y == CellY(w, idx)
      low == LowestNeighbor(heights, w, h, x, y, 1, <<x, y, heights[idx]>>)
  IN IF low[1] # x \/ low[2] # y
     THEN [flow EXCEPT ![Idx(w, low[1], low[2])] = @ + 1]
     ELSE flow

\* one iteration of the accumulation loop, on the k-th cell of the order
FlowStep(heights, w, h, order, k, flow) ==
  LET idx == order[k]
      x == CellX(w, idx)
      y == CellY(w, idx)
      low == LowestNeighbor(heights, w, h, x, y, 1, <<x, y, heights[idx]>>)
  IN IF low[1] # x \/ low[2] # y
     THEN [flow EXCEPT ![Idx(w, low[1], low[2])] = @ + flow[idx]]
     ELSE flow

\* the accumulation loop over the cells lo..hi of the order, in order
\* (the range is halved to keep the evaluation shallow)
RECURSIVE FlowAccumulate(_, _, _, _, _, _, _)
FlowAccumulate(heights, w, h, order, lo, hi, flow) ==
  IF lo > hi THEN flow
  ELSE IF lo = hi THEN FlowStep(heights, w, h, order, lo, flow)
  ELSE LET mid == (lo + hi) \div 2
           first == FlowAccumulate(heights, w, h, order, lo, mid, flow)
       IN IF Len(first) >= 0
          THEN FlowAccumulate(heights, w, h, order, mid + 1, hi, first)
          ELSE first

\* the FlowMap: flow values and river flags
calculateFlow(heights, w, h) ==
  LET flow == FlowAccumulate(heights, w, h, SortedCells(heights), 1, w * h,
                             [i \in 1..(w * h) |-> 1])
  IN [flow |-> flow,
      isRiver |-> [i \in 1..(w * h) |-> IF flow[i] >= RIVER_THRESHOLD THEN 1 ELSE 0]]

\* ---------------------------------------------------------------------
\* calculateMoisture
\* ---------------------------------------------------------------------
MAX_DISTANCE == 15

\* calculateMoisture without the elevation penalty
calculateMoistureFlat(heights, isRiver, w, h) ==
  LET rivers == {i \in 1..(w * h) : isRiver[i] = 1}
      closest(x, y) ==
        LET near == {i \in rivers :
                       /\ CellX(w, i) - x >= -MAX_DISTANCE /\ CellX(w, i) - x <= MAX_DISTANCE
                       /\ CellY(w, i) - y >= -MAX_DISTANCE /\ CellY(w, i) - y <= MAX_DISTANCE}
            dists == {Hypot((CellX(w, i) - x) * Milli, (CellY(w, i) - y) * Milli) : i \in near}
                       \cup {MAX_DISTANCE * Milli}
        IN CHOOSE d \in dists : \A e \in dists : d <= e
      value(x, y) == Milli - closest(x, y) \div MAX_DISTANCE
  IN [i \in 1..(w * h) |-> Max(0, Min(Milli, value(CellX(w, i), CellY(w, i))))]

calculateMoisture(heights, isRiver, w, h) ==
  LET rivers == {i \in 1..(w * h) : isRiver[i] = 1}
      closest(x, y) ==
        LET near == {i \in rivers :
                       /\ CellX(w, i) - x >= -MAX_DISTANCE /\ CellX(w, i) - x <= MAX_DISTANCE
                       /\ CellY(w, i) - y >= -MAX_DISTANCE /\ CellY(w, i) - y <= MAX_DISTANCE}
            dists == {Hypot((CellX(w, i) - x) * Milli, (CellY(w, i) - y) * Milli) : i \in near}
                       \cup {MAX_DISTANCE * Milli}
        IN CHOOSE d \in dists : \A e \in dists : d <= e
      value(x, y) ==
        LET m == Milli - closest(x, y) \div MAX_DISTANCE
        IN IF GridGet(heights, w, h, x, y) > 600 THEN m \div 2 ELSE m
  IN [i \in 1..(w * h) |-> Max(0, Min(Milli, value(CellX(w, i), CellY(w, i))))]

\* ---------------------------------------------------------------------
\* classifyBiome / generateBiomeMap
\* ---------------------------------------------------------------------
\* the cascade with the moisture tests ahead of snow and mountain
classifyMoistureFirst(height, moisture) ==
  IF height < 300 THEN OCEAN
  ELSE IF height < 350 THEN BEACH
  ELSE IF moisture < 300 THEN DESERT
  ELSE IF moisture > 600 THEN FOREST
  ELSE IF height > 800 THEN SNOW
  ELSE IF height > 650 THEN MOUNTAIN
  ELSE PLAINS

classifyBiome(height, moisture) ==
  IF height < 300 THEN OCEAN
  ELSE IF height < 350 THEN BEACH
  ELSE IF height > 800 THEN SNOW
  ELSE IF height > 650 THEN MOUNTAIN
  ELSE IF moisture < 300 THEN DESERT
  ELSE IF moisture > 600 THEN FOREST
  ELSE PLAINS

generateBiomeMap(heights, moisture) ==
  [i \in DOMAIN heights |-> classifyBiome(heights[i], moisture[i])]

\* ---------------------------------------------------------------------
\* initializeVegetation / updateVegetation
\* ---------------------------------------------------------------------
initializeVegetation(biome, moisture) ==
  [i \in DOMAIN biome |->
     LET maxVeg == MAX_DENSITY(biome[i])
         initFrac == INITIAL_BASE + (INITIAL_MOISTURE_BONUS * moisture[i]) \div Milli
     IN IF maxVeg <= 0 THEN 0
        ELSE Max(0, Min(VegUnit, Min(maxVeg, (maxVeg * initFrac) \div Milli)))]

STRIDE == 4

\* the regrowth of one cell: base * moistureFactor * deficit * stride
Regrowth(biomeType, moisture, current) ==
  LET maxVeg == MAX_DENSITY(biomeType)
      moistureFactor == 250 + (750 * moisture) \div Milli
      deficit == Milli - (current * Milli) \div maxVeg
  IN (GROWTH_RATE(biomeType) * moistureFactor * deficit * STRIDE) \div (Milli * Milli)

\* updateVegetation visiting every row in every tick
updateVegetationEveryRow(veg, biome, moisture, w, h, tick) ==
  [i \in DOMAIN veg |->
     LET maxVeg == MAX_DENSITY(biome[i])
         current == veg[i]
     IN IF maxVeg <= 0 THEN current
        ELSE IF Regrowth(biome[i], moisture[i], current) > 0 /\ current < maxVeg
             THEN Max(0, Min(VegUnit,
                    Min(maxVeg, current + Regrowth(biome[i], moisture[i], current))))
             ELSE current]

\* updateVegetation: the rows startY, startY + stride, ... are visited
updateVegetation(veg, biome, moisture, w, h, tick) ==
  [i \in DOMAIN veg |->
     LET maxVeg == MAX_DENSITY(biome[i])
         current == veg[i]
     IN IF CellY(w, i) % STRIDE # tick % STRIDE \/ maxVeg <= 0 THEN current
        ELSE IF Regrowth(biome[i], moisture[i], current) > 0 /\ current < maxVeg
             THEN Max(0, Min(VegUnit,
                    Min(maxVeg, current + Regrowth(biome[i], moisture[i], current))))
             ELSE current]

\* ---------------------------------------------------------------------
\* Agent
\* ---------------------------------------------------------------------
NoCause == "none"

\* new Agent(config): state IDLE, reproCooldown 0, deathCause null
NewAgent(id, x, y, hunger, energy, speed, senseRadius) ==
  [id |-> id, x |-> x, y |-> y, hunger |-> hunger, energy |-> energy,
   speed |-> speed, senseRadius |-> senseRadius, state |-> IDLE,
   maxHunger |-> MAX_HUNGER, maxEnergy |-> MAX_ENERGY,
   reproCooldown |-> 0, deathCause |-> NoCause]

kill(a, cause) == [a EXCEPT !.deathCause = cause, !.state = DEAD]

isDead(a) == a.state = DEAD

\* An angle drawn by rng.range(0, 2*PI) is one of NumDirections equally
\* spaced angles; COS and SIN are Math.cos and Math.sin of them.
NumDirections == 8
COS == <<1000, 707, 0, -707, -1000, -707, 0, 707>>
SIN == <<0, 707, 1000, 707, 0, -707, -1000, -707>>
Direction(v) == (v * NumDirections) \div RngMod + 1

\* Agent.move
move(a, dx, dy) ==
  [a EXCEPT !.x = @ + dx, !.y = @ + dy,
            !.hunger = @ + (Hypot(dx, dy) * MOVE_COST * a.speed) \div (Milli * Milli)]

\* handleIdle drawing from one generator shared by every World of the
\* process, which the other worlds' activity advances
handleIdleShared(a, rng) ==
  IF a.hunger > 30000 THEN [agent |-> [a EXCEPT !.state = FORAGING], rng |-> rng]
  ELSE LET r1 == RngNext((rng + other.tickCount + 1) % RngMod)
           r2 == RngNext(r1.state)
           d == Direction(r2.value)
       IN IF r1.value * 10 < RngMod
          THEN [agent |-> move(a, (COS[d] * (a.speed \div 2)) \div Milli,
                                  (SIN[d] * (a.speed \div 2)) \div Milli),
                rng |-> r2.state]
          ELSE [agent |-> a, rng |-> r1.state]

\* Agent.handleIdle
handleIdle(a, rng) ==
  IF a.hunger > 30000 THEN [agent |-> [a EXCEPT !.state = FORAGING], rng |-> rng]
  ELSE LET r1 == RngNext(rng)
           r2 == RngNext(r1.state)
           d == Direction(r2.value)
       IN IF r1.value * 10 < RngMod
          THEN [agent |-> move(a, (COS[d] * (a.speed \div 2)) \div Milli,
                                  (SIN[d] * (a.speed \div 2)) \div Milli),
                rng |-> r2.state]
          ELSE [agent |-> a, rng |-> r1.state]

\* The sense-radius window of handleForaging.  The loops run dy and dx
\* from -senseRadius in steps of 1 while <= senseRadius, so with a
\* fractional senseRadius the offsets, and the typed-array index
\* ny * width + nx, are fractional; a fractional or out-of-range index
\* reads undefined, whose score is NaN and never beats bestScore.
\* vegetation.get(nx, ny) for coordinates in 1/Milli; -1 stands for undefined
VegGetAt(veg, w, h, nx, ny) ==
  IF nx < 0 \/ nx >= w * Milli \/ ny < 0 \/ ny >= h * Milli THEN 0
  ELSE LET index == ny * w + nx
       IN IF index % Milli = 0 /\ index \div Milli < Len(veg)
          THEN veg[index \div Milli + 1] ELSE -1

\* veg / (1 + dist), in units of 1/(10 * VegUnit)
Score(vegValue, dx, dy) == (vegValue * 10 * Milli) \div (Milli + Hypot(dx, dy))

\* The body of the two scan loops on the k-th cell of the window, cells
\* counted with dy in the outer and dx in the inner loop; best is
\* <<bestX, bestY, bestScore>> so far.
ScanCell(veg, w, h, cx, cy, radius, k, best) ==
  LET n == (2 * radius) \div Milli + 1
      dx == (k % n) * Milli - radius
      dy == (k \div n) * Milli - radius
      nx == cx * Milli + dx
      ny == cy * Milli + dy
      vegValue == VegGetAt(veg, w, h, nx, ny)
      score == Score(vegValue, dx, dy)
  IN IF nx < 0 \/ nx >= w * Milli \/ ny < 0 \/ ny >= h * Milli THEN best
     ELSE IF vegValue >= 0 /\ vegValue <= 2000 THEN best
     ELSE IF vegValue >= 0 /\ score > best[3] THEN <<nx, ny, score>>
     ELSE best

\* the scan over the cells lo..hi of the window, in order (the range is
\* halved to keep the evaluation shallow)
RECURSIVE ScanWindow(_, _, _, _, _, _, _, _, _)
ScanWindow(veg, w, h, cx, cy, radius, lo, hi, best) ==
  IF lo > hi THEN best
  ELSE IF lo = hi THEN ScanCell(veg, w, h, cx, cy, radius, lo, best)
  ELSE LET mid == (lo + hi) \div 2
           first == ScanWindow(veg, w, h, cx, cy, radius, lo, mid, best)
       IN IF first[3] >= 0
          THEN ScanWindow(veg, w, h, cx, cy, radius, mid + 1, hi, first)
          ELSE first

\* the cell the scan ends with: <<bestX, bestY, bestScore>>
BestCell(veg, w, h, cx, cy, radius) ==
  LET n == (2 * radius) \div Milli + 1
  IN ScanWindow(veg, w, h, cx, cy, radius, 0, n * n - 1, <<cx * Milli, cy * Milli, 0>>)

\* the step of handleForaging towards the best cell, at offset (dx, dy):
\* eat when closer than 0.5, else move one speed along the unit vector
Approach(a, dx, dy, dist, rng) ==
  IF dist < 500
  THEN [agent |-> [a EXCEPT !.state = EATING], rng |-> rng]
  ELSE [agent |-> move(a, (dx * a.speed) \div dist, (dy * a.speed) \div dist),
        rng |-> rng]

\* the step of handleForaging when no cell scored: roam at a drawn angle
Roam(a, r) ==
  [agent |-> move(a, (COS[Direction(r.value)] * a.speed) \div Milli,
                     (SIN[Direction(r.value)] * a.speed) \div Milli),
   rng |-> r.state]

\* the decision of handleForaging on the cell the scan ended with
Pursue(a, best, rng) ==
  IF best[3] > 0
  THEN Approach(a, best[1] - a.x, best[2] - a.y,
                Hypot(best[1] - a.x, best[2] - a.y), rng)
  ELSE Roam(a, RngNext(rng))

\* Agent.handleForaging
handleForaging(a, veg, w, h, rng) ==
  IF GridGet(veg, w, h, a.x \div Milli, a.y \div Milli) >= 12000
  THEN [agent |-> [a EXCEPT !.state = EATING], rng |-> rng]
  ELSE Pursue(a, BestCell(veg, w, h, a.x \div Milli, a.y \div Milli, a.senseRadius), rng)

\* Agent.handleEating
handleEating(a, veg, w, h) ==
  LET cellX == a.x \div Milli
      cellY == a.y \div Milli
      eaten == VegConsume(veg, w, h, cellX, cellY, 20000 * Float32Step)
      hunger == a.hunger - (eaten.consumed * 15) \div (100 * Float32Step)
      energy == a.energy + (eaten.consumed * 20) \div (100 * Float32Step)
  IN IF GridGet(veg, w, h, cellX, cellY) < 5000
     THEN [agent |-> [a EXCEPT !.state = FORAGING], veg |-> veg]
     ELSE IF hunger <= 0
          THEN [agent |-> [a EXCEPT !.hunger = 0, !.energy = energy, !.state = IDLE],
                veg |-> eaten.data]
          ELSE [agent |-> [a EXCEPT !.hunger = hunger, !.energy = energy], veg |-> eaten.data]

\* the gate without its energy test
GateWithoutEnergy(a, localVeg) ==
  /\ a.state = IDLE
  /\ a.reproCooldown = 0
  /\ a.hunger < HUNGER_THRESHOLD
  /\ localVeg >= MIN_LOCAL_VEG

\* the reproduction gate of Agent.update
ReproductionGate(a, localVeg) ==
  /\ a.state = IDLE
  /\ a.reproCooldown = 0
  /\ a.hunger < HUNGER_THRESHOLD
  /\ a.energy >= ENERGY_REQUIRED
  /\ localVeg >= MIN_LOCAL_VEG

\* the starvation test of Agent.update
Starved(a) == a.hunger >= a.maxHunger

\* the head of Agent.update with the energy decay not floored at 0
MetabolizeUnfloored(a) ==
  [a EXCEPT !.reproCooldown = IF @ > 0 THEN @ - 1 ELSE @,
            !.energy = @ - ENERGY_DECAY,
            !.hunger = @ + HUNGER_RATE]

\* the head of Agent.update without its hunger line
MetabolizeSated(a) ==
  [a EXCEPT !.reproCooldown = IF @ > 0 THEN @ - 1 ELSE @,
            !.energy = Max(0, @ - ENERGY_DECAY)]

\* the head of Agent.update: cooldown, energy decay, hunger
Metabolize(a) ==
  [a EXCEPT !.reproCooldown = IF @ > 0 THEN @ - 1 ELSE @,
            !.energy = Max(0, @ - ENERGY_DECAY),
            !.hunger = @ + HUNGER_RATE]

\* the state switch of Agent.update: the agent, the vegetation and the RNG
\* state the handler leaves
Behave(a, veg, w, h, rng) ==
  CASE a.state = IDLE -> [veg |-> veg] @@ handleIdle(a, rng)
    [] a.state = FORAGING -> [veg |-> veg] @@ handleForaging(a, veg, w, h, rng)
    [] a.state = EATING -> [rng |-> rng] @@ handleEating(a, veg, w, h)
    [] OTHER -> [agent |-> a, veg |-> veg, rng |-> rng]

\* the gate's assignment: state = REPRODUCING when the gate passes
Gate(a, localVeg) ==
  IF ReproductionGate(a, localVeg) THEN [a EXCEPT !.state = REPRODUCING] ELSE a

\* the end of Agent.update with the energy clamp alone
ClampEnergy(a, w, h) == [a EXCEPT !.energy = Max(0, Min(a.maxEnergy, @))]

\* the clamps that end Agent.update: position into the world, energy into
\* [0, maxEnergy]
Clamp(a, w, h) ==
  [a EXCEPT !.x = Max(0, Min((w - 1) * Milli, @)),
            !.y = Max(0, Min((h - 1) * Milli, @)),
            !.energy = Max(0, Min(a.maxEnergy, @))]

\* What an update returns.  Besides the agent, the vegetation and the RNG
\* state it leaves, it carries what the update saw: hungerAtCheck is the
\* hunger tested against maxHunger, atGate the agent as the reproduction
\* gate read it, localVeg the vegetation the gate read, after the agent as
\* update left it.
Updated(ran, hungerAtCheck, atGate, localVeg, after, veg, rng) ==
  [agent |-> after, veg |-> veg, rng |-> rng,
   obs |-> [id |-> after.id, ran |-> ran, hungerAtCheck |-> hungerAtCheck,
            atGate |-> atGate, localVeg |-> localVeg, after |-> after]]

\* the tail of Agent.update on what the handler left: gate, then clamps
Settle(hungerAtCheck, b, localVeg, w, h) ==
  Updated(TRUE, hungerAtCheck, b.agent, localVeg,
          Clamp(Gate(b.agent, localVeg), w, h), b.veg, b.rng)

\* Agent.update after the head: starvation, state switch, gate, clamps
Live(a, b, veg, w, h, rng) ==
  IF Starved(a)
  THEN Updated(TRUE, a.hunger, a, 0, kill(a, "Starvation"), veg, rng)
  ELSE Settle(a.hunger, b,
              GridGet(b.veg, w, h, b.agent.x \div Milli, b.agent.y \div Milli), w, h)

\* Agent.update
update(a, veg, w, h, rng) ==
  IF a.state = DEAD
  THEN Updated(FALSE, a.hunger, a, 0, a, veg, rng)
  ELSE Live(Metabolize(a), Behave(Metabolize(a), veg, w, h, rng), veg, w, h, rng)

\* mutate without the floor at 0.1
mutateUnfloored(val, rng) ==
  LET r1 == RngNext(rng)
      r2 == RngNext(r1.state)
  IN IF r1.value * Milli < MUTATION_RATE * RngMod
     THEN [val |-> val + RngRange(r2.value, -MUTATION_AMOUNT, MUTATION_AMOUNT),
           rng |-> r2.state]
     ELSE [val |-> val, rng |-> r1.state]

\* mutate(val) of Agent.reproduce: the trait value and the RNG state after it
mutate(val, rng) ==
  LET r1 == RngNext(rng)
      r2 == RngNext(r1.state)
  IN IF r1.value * Milli < MUTATION_RATE * RngMod
     THEN [val |-> Max(100, val + RngRange(r2.value, -MUTATION_AMOUNT, MUTATION_AMOUNT)),
           rng |-> r2.state]
     ELSE [val |-> val, rng |-> r1.state]

\* reproduce with a cooldown of a single tick
reproduceShortCooldown(a, nextId, rng) ==
  LET parent == [a EXCEPT !.energy = Max(0, @ - ENERGY_REQUIRED),
                          !.reproCooldown = 1,
                          !.state = IDLE]
      m1 == mutate(a.speed, rng)
      m2 == mutate(a.senseRadius, m1.rng)
  IN [parent |-> parent,
      offspring |-> NewAgent(nextId, a.x, a.y, 30000, 0, m1.val, m2.val),
      rng |-> m2.rng]

\* reproduce without the return to IDLE
reproduceUnresolved(a, nextId, rng) ==
  LET parent == [a EXCEPT !.energy = Max(0, @ - ENERGY_REQUIRED),
                          !.reproCooldown = COOLDOWN_TICKS]
      m1 == mutate(a.speed, rng)
      m2 == mutate(a.senseRadius, m1.rng)
  IN [parent |-> parent,
      offspring |-> NewAgent(nextId, a.x, a.y, 30000, 0, m1.val, m2.val),
      rng |-> m2.rng]

\* Agent.reproduce
reproduce(a, nextId, rng) ==
  LET parent == [a EXCEPT !.energy = Max(0, @ - ENERGY_REQUIRED),
                          !.reproCooldown = COOLDOWN_TICKS,
                          !.state = IDLE]
      m1 == mutate(a.speed, rng)
      m2 == mutate(a.senseRadius, m1.rng)
  IN [parent |-> parent,
      offspring |-> NewAgent(nextId, a.x, a.y, 30000, 0, m1.val, m2.val),
      rng |-> m2.rng]

\* ---------------------------------------------------------------------
\* World
\* ---------------------------------------------------------------------
NoHeightMap == [data |-> <<>>, locationName |-> ""]
MAX_SPAWN_ATTEMPTS == 1000

\* the loop body without the test for ocean
SpawnStepAnywhere(biome, w, h, population, acc) ==
  LET rx == RngNext(acc.rng)
      ry == RngNext(rx.state)
      x == RngRange(rx.value, 0, (w - 1) * Milli)
      y == RngRange(ry.value, 0, (h - 1) * Milli)
  IN IF ~(Len(acc.agents) < population) THEN acc
     ELSE [agents |-> Append(acc.agents,
                             NewAgent(acc.nextAgentId, x, y, 0, 0, SPEED, SENSE_RADIUS)),
           nextAgentId |-> acc.nextAgentId + 1, rng |-> ry.state,
           attempts |-> acc.attempts + 1]

\* One iteration of the initial population loop of World.generate, or
\* nothing once the loop condition is false; acc holds the roster,
\* nextAgentId and the RNG state.
SpawnStep(biome, w, h, population, acc) ==
  LET rx == RngNext(acc.rng)
      ry == RngNext(rx.state)
      x == RngRange(rx.value, 0, (w - 1) * Milli)
      y == RngRange(ry.value, 0, (h - 1) * Milli)
  IN IF ~(Len(acc.agents) < population) THEN acc
     ELSE IF BiomeGet(biome, w, h, x \div Milli, y \div Milli) # OCEAN
          THEN [agents |-> Append(acc.agents,
                                  NewAgent(acc.nextAgentId, x, y, 0, 0, SPEED, SENSE_RADIUS)),
                nextAgentId |-> acc.nextAgentId + 1, rng |-> ry.state,
                attempts |-> acc.attempts + 1]
          ELSE [acc EXCEPT !.rng = ry.state, !.attempts = @ + 1]

\* the initial population loop over the attempts lo..hi (the range is
\* halved to keep the evaluation shallow)
RECURSIVE SpawnAgents(_, _, _, _, _, _, _)
SpawnAgents(biome, w, h, population, lo, hi, acc) ==
  IF lo > hi THEN acc
  ELSE IF lo = hi THEN SpawnStep(biome, w, h, population, acc)
  ELSE LET mid == (lo + hi) \div 2
           first == SpawnAgents(biome, w, h, population, lo, mid, acc)
       IN IF first.nextAgentId >= 0
          THEN SpawnAgents(biome, w, h, population, mid + 1, hi, first)
          ELSE first

\* World.generate, on the fields the constructor (or regenerate, or
\* loadRealTerrain) has set: the world it leaves.  initializeVegetation
\* takes the moisture layer generate has just derived.
generate(w, h, seed, population, external) ==
  LET isReal == external # NoHeightMap
      heights == IF isReal THEN external.data ELSE generateHeightMap(w, h, seed)
      flowMap == calculateFlow(heights, w, h)
      moisture == calculateMoisture(heights, flowMap.isRiver, w, h)
      biome == generateBiomeMap(heights, moisture)
      spawned == SpawnAgents(biome, w, h, population, 1, MAX_SPAWN_ATTEMPTS,
                            [agents |-> <<>>, nextAgentId |-> 1, rng |-> RngSeed(seed),
                             attempts |-> 0])
  IN [width |-> w, height |-> h, seed |-> seed, initialPopulation |-> population,
      isRealTerrain |-> isReal, externalHeightMap |-> external,
      locationName |-> IF isReal THEN external.locationName ELSE "",
      heightMap |-> heights, flow |-> flowMap.flow, isRiver |-> flowMap.isRiver,
      moistureMap |-> moisture, biomeMap |-> biome,
      vegetationMap |-> initializeVegetation(biome, moisture),
      agents |-> spawned.agents, nextAgentId |-> spawned.nextAgentId,
      rng |-> spawned.rng,
      history |-> << [tick |-> 0, type |-> WORLD_GENERATE, x |-> -1, y |-> -1,
                      details |-> IF isReal /\ external.locationName # ""
                                  THEN <<"Real Terrain", external.locationName>>
                                  ELSE <<"Procedural Seed", seed>>] >>,
      tickCount |-> 0]

\* new World(config)
NewWorld(config) ==
  generate(config.width, config.height, config.seed, config.initialPopulation,
           config.heightMap)

\* regenerate without history.clear() in generate
RegenerateKeepingHistory(self, seed) ==
  [generate(self.width, self.height, seed, self.initialPopulation, NoHeightMap)
     EXCEPT !.history = self.history \o @]

\* World.regenerate(seed): the seed is replaced, the external height map
\* dropped, and generate runs again
regenerate(self, seed) ==
  generate(self.width, self.height, seed, self.initialPopulation, NoHeightMap)

\* the roster left in the order it has
KeepOrder(agents) == agents

\* this.agents.sort((a, b) => a.id - b.id)
RECURSIVE SortById(_)
SortById(agents) ==
  IF Len(agents) <= 1 THEN agents
  ELSE LET m == CHOOSE i \in 1..Len(agents) :
                  \A j \in 1..Len(agents) :
                    agents[i].id < agents[j].id \/ (agents[i].id = agents[j].id /\ i <= j)
       IN <<agents[m]>> \o SortById([k \in 1..(Len(agents) - 1) |->
                                       IF k < m THEN agents[k] ELSE agents[k + 1]])

\* the carcass nutrients a dead agent returns to its cell
CarcassNutrients(veg, w, h, a) ==
  VegSet(veg, w, h, a.x \div Milli, a.y \div Milli,
         GridGet(veg, w, h, a.x \div Milli, a.y \div Milli) + 50000)

\* Bury without the death event
BuryUnlogged(acc, k, u, w, h, tick) ==
  [acc EXCEPT !.agents[k] = u.agent, !.rng = u.rng,
              !.veg = CarcassNutrients(u.veg, w, h, u.agent),
              !.seen = Append(@, u.obs)]

\* the loop body for an agent that update left dead: carcass nutrients,
\* the death event, and no entry in nextAgents
Bury(acc, k, u, w, h, tick) ==
  [acc EXCEPT !.agents[k] = u.agent, !.rng = u.rng,
              !.veg = CarcassNutrients(u.veg, w, h, u.agent),
              !.history = Append(@, [tick |-> tick, type |-> AGENT_DEATH,
                                     x |-> u.agent.x, y |-> u.agent.y,
                                     details |-> <<"Starvation", 0>>]),
              !.seen = Append(@, u.obs)]

\* Breed with the offspring put through the head of an update at once
BreedAged(acc, k, u, r, tick) ==
  [acc EXCEPT !.agents[k] = r.parent, !.rng = r.rng, !.veg = u.veg,
              !.nextAgentId = @ + 1,
              !.history = Append(@, [tick |-> tick, type |-> AGENT_SPAWN,
                                     x |-> r.offspring.x, y |-> r.offspring.y,
                                     details |-> <<"Parent", u.agent.id>>]),
              !.nextAgents = @ \o <<Metabolize(r.offspring), r.parent>>,
              !.seen = Append(@, u.obs)]

\* Breed writing the spawn event over the last event of the log
BreedOverwriting(acc, k, u, r, tick) ==
  [acc EXCEPT !.agents[k] = r.parent, !.rng = r.rng, !.veg = u.veg,
              !.nextAgentId = @ + 1,
              !.history[Len(acc.history)] =
                 [tick |-> tick, type |-> AGENT_SPAWN,
                  x |-> r.offspring.x, y |-> r.offspring.y,
                  details |-> <<"Parent", u.agent.id>>],
              !.nextAgents = @ \o <<r.offspring, r.parent>>,
              !.seen = Append(@, u.obs)]

\* Breed with nextAgentId read but not incremented
BreedSameId(acc, k, u, r, tick) ==
  [acc EXCEPT !.agents[k] = r.parent, !.rng = r.rng, !.veg = u.veg,
              !.history = Append(@, [tick |-> tick, type |-> AGENT_SPAWN,
                                     x |-> r.offspring.x, y |-> r.offspring.y,
                                     details |-> <<"Parent", u.agent.id>>]),
              !.nextAgents = @ \o <<r.offspring, r.parent>>,
              !.seen = Append(@, u.obs)]

\* the loop body for an agent that update left REPRODUCING: r is what
\* reproduce returned; the offspring is pushed before the parent
Breed(acc, k, u, r, tick) ==
  [acc EXCEPT !.agents[k] = r.parent, !.rng = r.rng, !.veg = u.veg,
              !.nextAgentId = @ + 1,
              !.history = Append(@, [tick |-> tick, type |-> AGENT_SPAWN,
                                     x |-> r.offspring.x, y |-> r.offspring.y,
                                     details |-> <<"Parent", u.agent.id>>]),
              !.nextAgents = @ \o <<r.offspring, r.parent>>,
              !.seen = Append(@, u.obs)]

\* the loop body for any other agent
Keep(acc, k, u) ==
  [acc EXCEPT !.agents[k] = u.agent, !.rng = u.rng, !.veg = u.veg,
              !.nextAgents = Append(@, u.agent),
              !.seen = Append(@, u.obs)]

\* the loop body on what update returned for the k-th agent
Settled(acc, k, u, w, h, tick) ==
  IF isDead(u.agent) THEN Bury(acc, k, u, w, h, tick)
  ELSE IF u.agent.state = REPRODUCING
       THEN Breed(acc, k, u, reproduce(u.agent, acc.nextAgentId, u.rng), tick)
       ELSE Keep(acc, k, u)

\* One iteration of the agent loop of World.tick on the k-th agent of the
\* sorted roster.  acc holds what the loop has written so far: the
\* vegetation, the RNG state, nextAgentId, the history, nextAgents, the
\* agent objects as updated in place, and what each update saw.
LoopStep(acc, w, h, tick, k) ==
  Settled(acc, k, update(acc.agents[k], acc.veg, w, h, acc.rng), w, h, tick)

\* the agent loop over the positions lo..hi of the sorted roster, in
\* order (the range is halved to keep the evaluation shallow)
RECURSIVE AgentLoop(_, _, _, _, _, _)
AgentLoop(acc, w, h, tick, lo, hi) ==
  IF lo > hi THEN acc
  ELSE IF lo = hi THEN LoopStep(acc, w, h, tick, lo)
  ELSE LET mid == (lo + hi) \div 2
           first == AgentLoop(acc, w, h, tick, lo, mid)
       IN IF first.nextAgentId >= 0
          THEN AgentLoop(first, w, h, tick, mid + 1, hi)
          ELSE first

\* The body of World.tick up to, and not including, the update of the
\* agent at position stop of the sorted roster.
TickBody(self, stop) ==
  AgentLoop([veg |-> SubSeq(updateVegetation(self.vegetationMap, self.biomeMap,
                                             self.moistureMap, self.width,
                                             self.height, self.tickCount),
                            1, Len(self.vegetationMap)),
             rng |-> self.rng, nextAgentId |-> self.nextAgentId,
             history |-> self.history, nextAgents |-> <<>>,
             agents |-> SortById(self.agents), seen |-> <<>>],
            self.width, self.height, self.tickCount, 1, stop - 1)

\* TickEnd with the vegetation written to the moisture layer as well
TickEndOnMoisture(self, done) ==
  [self EXCEPT !.vegetationMap = done.veg, !.moistureMap = done.veg, !.rng = done.rng,
               !.nextAgentId = done.nextAgentId, !.history = done.history,
               !.agents = done.nextAgents, !.tickCount = @ + 1]

\* the assignments that end World.tick, on what the loop has written
TickEnd(self, done) ==
  [self EXCEPT !.vegetationMap = done.veg, !.rng = done.rng,
                !.nextAgentId = done.nextAgentId, !.history = done.history,
                !.agents = done.nextAgents, !.tickCount = @ + 1]

\* World.tick running to its end: the world it leaves
tick(self) == TickEnd(self, TickBody(self, Len(self.agents) + 1))

\* ---------------------------------------------------------------------
\* Checksums (hashes kept at 16 bits)
\* ---------------------------------------------------------------------
HashMod == 65536
FNV_OFFSET == 40389
FNV_PRIME == 403

\* a ^ b on the bits below 2^bits
RECURSIVE BitXor(_, _, _)
BitXor(a, b, bits) ==
  IF bits = 0 THEN 0
  ELSE ((a + b) % 2) + 2 * BitXor(a \div 2, b \div 2, bits - 1)

\* the loop of fnv1aHash from character i on; data is the hashed text as
\* the sequence of its parts
RECURSIVE FnvFold(_, _, _)
FnvFold(data, i, hash) ==
  IF i > Len(data) THEN hash
  ELSE FnvFold(data, i + 1, (BitXor(hash, data[i] % HashMod, 16) * FNV_PRIME) % HashMod)

fnv1aHash(data) == FnvFold(data, 1, FNV_OFFSET)

AddPair(p, q) == <<p[1] + q[1], p[2] + q[2]>>

\* the sampling loop of hashTypedArray over the indices lo..hi (0-based):
\* <<sum, weightedSum>>
RECURSIVE SampleSums(_, _, _, _)
SampleSums(data, step, lo, hi) ==
  IF lo > hi THEN <<0, 0>>
  ELSE IF lo = hi
       THEN IF lo % step = 0 THEN <<data[lo + 1], data[lo + 1] * (lo + 1)>> ELSE <<0, 0>>
       ELSE AddPair(SampleSums(data, step, lo, (lo + hi) \div 2),
                    SampleSums(data, step, (lo + hi) \div 2 + 1, hi))

hashTypedArray(data) ==
  fnv1aHash(<<Len(data)>> \o SampleSums(data, Max(1, Len(data) \div 10000), 0, Len(data) - 1))

\* the tag of each checksum stands for its text prefix
checksumHeightMap(data, w, h) == fnv1aHash(<<1, w, h, hashTypedArray(data)>>)
checksumFlowMap(flow, isRiver, w, h) ==
  fnv1aHash(<<2, w, h, hashTypedArray(flow), hashTypedArray(isRiver)>>)
checksumMoistureMap(data, w, h) == fnv1aHash(<<3, w, h, hashTypedArray(data)>>)

\* BiomeMap.getCounts, in the order of the enum
getCounts(data) ==
  [b \in 1..7 |-> Cardinality({i \in 1..Len(data) : data[i] = b - 1})]
checksumBiomeMap(data, w, h) == fnv1aHash(<<4, w, h>> \o getCounts(data))
checksumVegetation(data, w, h) == fnv1aHash(<<5, w, h, hashTypedArray(data)>>)

AgentStates == <<IDLE, FORAGING, EATING, REPRODUCING, DEAD>>
StateCode(state) == CHOOSE i \in 1..5 : AgentStates[i] = state

checksumAgent(a) ==
  fnv1aHash(<<a.id, a.x, a.y, a.hunger, a.energy, a.speed, a.senseRadius,
              a.reproCooldown, StateCode(a.state)>>)

\* agents.sort(...): the array itself is sorted
SortedInPlace(agents) == [sorted |-> SortById(agents), roster |-> SortById(agents)]

\* a copy that is not sorted
UnsortedCopy(agents) == [sorted |-> agents, roster |-> agents]

\* [...agents].sort((a, b) => a.id - b.id): a sorted copy, and the array
\* as the call leaves it
SortedCopy(agents) == [sorted |-> SortById(agents), roster |-> agents]

checksumAgents(agents) ==
  IF Len(agents) = 0 THEN fnv1aHash(<<6, 0>>)
  ELSE fnv1aHash(<<6, Len(agents)>>
                 \o [i \in 1..Len(agents) |-> checksumAgent(SortedCopy(agents).sorted[i])])

\* the layer hashes of World.getChecksum
LayerSums(self) ==
  [tick |-> self.tickCount, seed |-> self.seed,
   height |-> checksumHeightMap(self.heightMap, self.width, self.height),
   flow |-> checksumFlowMap(self.flow, self.isRiver, self.width, self.height),
   moisture |-> checksumMoistureMap(self.moistureMap, self.width, self.height),
   biome |-> checksumBiomeMap(self.biomeMap, self.width, self.height),
   vegetation |-> checksumVegetation(self.vegetationMap, self.width, self.height),
   agents |-> checksumAgents(self.agents)]

\* the loop over the composite text, hash = ((hash << 5) - hash) + part,
\* from part i on
RECURSIVE CompositeFold(_, _, _)
CompositeFold(data, i, hash) ==
  IF i > Len(data) THEN hash
  ELSE CompositeFold(data, i + 1, (hash * 32 - hash + (data[i] % HashMod)) % HashMod)

\* the composite hash added to the layer hashes
WithComposite(sum) ==
  [composite |-> CompositeFold(<<sum.tick, sum.seed, sum.height, sum.flow,
                                 sum.moisture, sum.biome, sum.vegetation,
                                 sum.agents>>, 1, 0)] @@ sum

\* World.getChecksum
getChecksum(self) == WithComposite(LayerSums(self))

\* ---------------------------------------------------------------------
\* Serialization
\* ---------------------------------------------------------------------
SERIALIZATION_VERSION == 1

\* the '=' that pads a base64 text
PAD == 64

\* new Uint8Array(arr.buffer) of a Float32Array: the four bytes of each
\* element, low byte first; an element's bit pattern is its integer here
BytesOfFloat32(arr) ==
  [i \in 1..(4 * Len(arr)) |->
     (arr[(i - 1) \div 4 + 1] \div <<1, 256, 65536, 16777216>>[((i - 1) % 4) + 1]) % 256]

\* new Float32Array(bytes.buffer)
Float32OfBytes(bytes) ==
  [k \in 1..(Len(bytes) \div 4) |->
     bytes[4 * k - 3] + 256 * bytes[4 * k - 2] + 65536 * bytes[4 * k - 1]
       + 16777216 * bytes[4 * k]]

\* the byte at 0-based position i of bytes, 0 past the end
ByteAt(bytes, i) == IF i < Len(bytes) THEN bytes[i + 1] ELSE 0

\* btoa: the j-th character (0-based) of the base64 text of bytes, as its
\* 6-bit value, or PAD
Sextet(bytes, j) ==
  CASE j % 4 = 0 -> ByteAt(bytes, 3 * (j \div 4)) \div 4
    [] j % 4 = 1 -> (ByteAt(bytes, 3 * (j \div 4)) % 4) * 16
                      + ByteAt(bytes, 3 * (j \div 4) + 1) \div 16
    [] j % 4 = 2 -> IF 3 * (j \div 4) + 1 >= Len(bytes) THEN PAD
                    ELSE (ByteAt(bytes, 3 * (j \div 4) + 1) % 16) * 4
                           + ByteAt(bytes, 3 * (j \div 4) + 2) \div 64
    [] OTHER -> IF 3 * (j \div 4) + 2 >= Len(bytes) THEN PAD
                ELSE ByteAt(bytes, 3 * (j \div 4) + 2) % 64

btoa(bytes) == [j \in 1..(4 * ((Len(bytes) + 2) \div 3)) |-> Sextet(bytes, j - 1)]

\* the number of bytes a base64 text decodes to
DecodedLength(text) ==
  (Len(text) \div 4) * 3 - Cardinality({j \in 1..Len(text) : text[j] = PAD})

\* atob: the i-th byte (0-based) of the decoded text
Octet(text, i) ==
  CASE i % 3 = 0 -> (text[4 * (i \div 3) + 1] * 4 + text[4 * (i \div 3) + 2] \div 16) % 256
    [] i % 3 = 1 -> ((text[4 * (i \div 3) + 2] % 16) * 16
                       + text[4 * (i \div 3) + 3] \div 4) % 256
    [] OTHER -> ((text[4 * (i \div 3) + 3] % 4) * 64 + text[4 * (i \div 3) + 4]) % 256

atob(text) == [i \in 1..DecodedLength(text) |-> Octet(text, i - 1)]

\* the elements of a sequence, evaluated
Flat(f) == SubSeq(f, 1, Len(f))

encodeFloat32Array(arr) == Flat(btoa(Flat(BytesOfFloat32(arr))))
encodeUint8Array(arr) == Flat(btoa(arr))
decodeToFloat32Array(base64) == Flat(Float32OfBytes(Flat(atob(base64))))
decodeToUint8Array(base64) == Flat(atob(base64))

\* one entry of the agents array of a payload
SerializedAgent(a) ==
  [id |-> a.id, x |-> a.x, y |-> a.y, hunger |-> a.hunger, energy |-> a.energy,
   speed |-> a.speed, senseRadius |-> a.senseRadius, state |-> a.state,
   maxHunger |-> a.maxHunger, maxEnergy |-> a.maxEnergy,
   reproCooldown |-> a.reproCooldown]

\* serializeWorld.  The history of the payload is the world's events
\* array itself.
serializeWorld(self) ==
  [version |-> SERIALIZATION_VERSION,
   meta |-> [seed |-> self.seed, tick |-> self.tickCount, width |-> self.width,
             height |-> self.height, population |-> Len(self.agents),
             nextAgentId |-> self.nextAgentId, isRealTerrain |-> self.isRealTerrain,
             locationName |-> self.locationName],
   layers |-> [heightMap |-> encodeFloat32Array(self.heightMap),
               moistureMap |-> encodeFloat32Array(self.moistureMap),
               biomeMap |-> encodeUint8Array(self.biomeMap),
               vegetationMap |-> encodeFloat32Array(self.vegetationMap)],
   agents |-> [i \in 1..Len(self.agents) |-> SerializedAgent(self.agents[i])],
   history |-> self.history,
   rngState |-> RngGetState(self.rng)]

\* RestoredAgent without the entry's hunger: the constructor's default
RestoredAgentFed(a) ==
  [NewAgent(a.id, a.x, a.y, 0, a.energy, a.speed, a.senseRadius)
     EXCEPT !.state = a.state, !.maxHunger = a.maxHunger, !.maxEnergy = a.maxEnergy,
            !.reproCooldown = a.reproCooldown]

\* the agent deserializeWorld builds from an entry of the agents array
RestoredAgent(a) ==
  [NewAgent(a.id, a.x, a.y, a.hunger, a.energy, a.speed, a.senseRadius)
     EXCEPT !.state = a.state, !.maxHunger = a.maxHunger, !.maxEnergy = a.maxEnergy,
            !.reproCooldown = a.reproCooldown]

\* what deserializeWorld throws on another version
UnsupportedVersion == [error |-> "Unsupported serialization version"]

\* the RNG of a loaded world left as new SeededRNG(seed) makes it
ReseededRng(data) == RngSeed(data.meta.seed)

\* the RNG deserializeWorld builds: seeded, then set to the saved state
RestoredRng(data) == RngSetState(RngSeed(data.meta.seed), data.rngState)

\* what new Float32Array(bytes.buffer) and TypedArray.set throw
RangeError == [error |-> "RangeError"]

\* new Float32Array(bytes.buffer) takes a whole number of elements
Aligned(base64) == DecodedLength(base64) % 4 = 0

\* target.set(source) on a new layer of n cells: the source's elements
\* from the first cell on, the other cells as the constructor left them
TypedArraySet(n, source) ==
  SubSeq([i \in 1..n |-> IF i <= Len(source) THEN source[i] ELSE 0], 1, n)

\* no decode and no set of deserializeWorld throws: the float layers
\* hold whole elements and no layer holds more than width*height
LayersFit(data) ==
  /\ \A layer \in {data.layers.heightMap, data.layers.moistureMap,
                    data.layers.vegetationMap} :
        Aligned(layer) /\ DecodedLength(layer) \div 4 <= data.meta.width * data.meta.height
  /\ DecodedLength(data.layers.biomeMap) <= data.meta.width * data.meta.height

\* the world deserializeWorld builds on the restored height and its flow
Rebuilt(data, heights, flowMap) ==
  [width |-> data.meta.width, height |-> data.meta.height, seed |-> data.meta.seed,
   initialPopulation |-> Len(data.agents),
   isRealTerrain |-> data.meta.isRealTerrain, externalHeightMap |-> NoHeightMap,
   locationName |-> data.meta.locationName,
   heightMap |-> heights, flow |-> flowMap.flow, isRiver |-> flowMap.isRiver,
   moistureMap |-> TypedArraySet(data.meta.width * data.meta.height,
                                 decodeToFloat32Array(data.layers.moistureMap)),
   biomeMap |-> TypedArraySet(data.meta.width * data.meta.height,
                              decodeToUint8Array(data.layers.biomeMap)),
   vegetationMap |-> TypedArraySet(data.meta.width * data.meta.height,
                                   decodeToFloat32Array(data.layers.vegetationMap)),
   agents |-> [i \in 1..Len(data.agents) |-> RestoredAgent(data.agents[i])],
   nextAgentId |-> data.meta.nextAgentId,
   rng |-> RestoredRng(data),
   history |-> data.history,
   tickCount |-> data.meta.tick]

RebuiltOn(data, heights) ==
  Rebuilt(data, heights, calculateFlow(heights, data.meta.width, data.meta.height))

\* deserializeWorld accepting any version
DeserializeAnyVersion(data) ==
  IF ~LayersFit(data) THEN RangeError
  ELSE RebuiltOn(data, TypedArraySet(data.meta.width * data.meta.height,
                                     decodeToFloat32Array(data.layers.heightMap)))

\* deserializeWorld: the world it returns, or the error it throws
deserializeWorld(data) ==
  IF data.version # SERIALIZATION_VERSION THEN UnsupportedVersion
  ELSE IF ~LayersFit(data) THEN RangeError
  ELSE RebuiltOn(data, TypedArraySet(data.meta.width * data.meta.height,
                                     decodeToFloat32Array(data.layers.heightMap)))

\* ---------------------------------------------------------------------
\* Inputs
\* ---------------------------------------------------------------------
Abs(n) == IF n < 0 THEN -n ELSE n

\* A basin: a 10 x 10 elevation grid falling towards cell (4, 4), every
\* cell between beach and mountain level.
BasinTerrain ==
  [data |-> [i \in 1..100 |-> 400 + 20 * Max(Abs(CellX(10, i) - 4), Abs(CellY(10, i) - 4))],
   locationName |-> "Basin"]

\* A 3 x 3 plateau above the snow line.
PlateauTerrain == [data |-> [i \in 1..9 |-> 900], locationName |-> ""]

Configs ==
  { [width |-> 10, height |-> 10, seed |-> 7, initialPopulation |-> 2,
     heightMap |-> BasinTerrain],
    [width |-> 3, height |-> 3, seed |-> 17, initialPopulation |-> 2,
     heightMap |-> PlateauTerrain],
    [width |-> 4, height |-> 4, seed |-> 0, initialPopulation |-> 1,
     heightMap |-> NoHeightMap] }

\* ---------------------------------------------------------------------
\* One world
\* ---------------------------------------------------------------------
\* placeholders of the variables that hold nothing yet
NoWorld == [tickCount |-> -1]
NoSnapshot == [version |-> -1]
NoRun == [position |-> 0]
NATIVE == "native"
STUB == "stub"
GUARD == "guard"
RETURNED == "returned"
THREW == "threw"

Ids(agents) == {agents[i].id : i \in 1..Len(agents)}

\* the ids of the agents of a roster, in roster order
IdSeq(agents) == [i \in 1..Len(agents) |-> agents[i].id]

\* the ids a tick handed out: those of nextAgents not handed out before,
\* in order of creation
Born(before, nextAgents) ==
  SelectSeq(IdSeq(nextAgents), LAMBDA id : \A j \in 1..Len(before) : before[j] # id)

\* new World(config), with Math.random untouched and nothing else alive
Construct(config) ==
  /\ world = NewWorld(config)
  /\ generated = world
  /\ seen = <<>>
  /\ issued = IdSeq(world.agents)
  /\ mathRandom = NATIVE
  /\ run = NoRun
  /\ outcome = RETURNED
  /\ call = [op |-> "new World"]

Init ==
  /\ \E config \in Configs : Construct(config)
  /\ twin = NoWorld
  /\ other = NoWorld
  /\ snapshot = NoSnapshot
  /\ restored = NoWorld
  /\ fresh = FALSE

\* what world.tick() running to its end does to world
TickRuns ==
  /\ world.tickCount < MaxTick
  /\ \E done \in {TickBody(world, Len(world.agents) + 1)} :
       /\ world' = TickEnd(world, done)
       /\ seen' = done.seen
       /\ issued' = issued \o Born(issued, done.nextAgents)
  /\ outcome' = RETURNED
  /\ UNCHANGED <<generated, mathRandom, run>>

\* world.tick() running to its end
TickWorld ==
  /\ TickRuns
  /\ call' = [op |-> "tick"]

Tick ==
  /\ TickWorld
  /\ UNCHANGED <<twin, other, snapshot, restored, fresh>>

Next == Tick

Spec == Init /\ [][Next]_vars

\* ---------------------------------------------------------------------
\* Properties of one world
\* ---------------------------------------------------------------------
\* C2: after every tick, every vegetation cell is within
\* [0, MAX_DENSITY of the cell's biome].
C2_VegetationWithinBiomeMax ==
  world.tickCount > 0 =>
    \A i \in 1..Len(world.vegetationMap) :
      /\ world.vegetationMap[i] >= 0
      /\ world.vegetationMap[i] <= MAX_DENSITY(world.biomeMap[i])

\* C3: no agent of the roster a tick leaves has hunger at or beyond
\* maxHunger, whichever way its hunger got there during the tick: it was
\* put in state DEAD and removed.
C3_NoStarvedSurvivor ==
  \A i \in 1..Len(world.agents) : world.agents[i].hunger < world.agents[i].maxHunger

\* C4: an update ends in state REPRODUCING only if the gate read an IDLE
\* agent with reproCooldown 0, hunger below the threshold, energy at
\* least the required energy, on a cell with enough vegetation.
C4_ReproductionGate ==
  \A k \in 1..Len(seen) :
    seen[k].after.state = REPRODUCING =>
      /\ seen[k].atGate.state = IDLE
      /\ seen[k].atGate.reproCooldown = 0
      /\ seen[k].atGate.hunger < HUNGER_THRESHOLD
      /\ seen[k].atGate.energy >= ENERGY_REQUIRED
      /\ seen[k].localVeg >= MIN_LOCAL_VEG

\* a tick in which an agent passed the gate and an offspring was logged
C4_Witness ==
  /\ \E k \in 1..Len(seen) : seen[k].after.state = REPRODUCING
  /\ world.history[Len(world.history)].type = AGENT_SPAWN

\* C5: the ids of the roster are pairwise different and below
\* nextAgentId, and every id handed out is greater than all handed out
\* before it, those of dead agents included.
C5_UniqueIncreasingIds ==
  /\ \A i, j \in 1..Len(world.agents) :
        i # j => world.agents[i].id # world.agents[j].id
  /\ \A i \in 1..Len(world.agents) : world.agents[i].id < world.nextAgentId
  /\ \A i, j \in 1..Len(issued) : i < j => issued[i] < issued[j]
  /\ \A i \in 1..Len(issued) : issued[i] < world.nextAgentId
  /\ Ids(world.agents) \subseteq {issued[i] : i \in 1..Len(issued)}

\* a second offspring has been born
C5_Witness ==
  /\ Len(issued) > Len(generated.agents) + 1
  /\ world.nextAgentId > generated.nextAgentId + 1

\* C6: after any number of ticks the height, flow, river, moisture and
\* biome grids are what generation left.
C6_StaticLayers ==
  /\ world.heightMap = generated.heightMap
  /\ world.flow = generated.flow
  /\ world.isRiver = generated.isRiver
  /\ world.moistureMap = generated.moistureMap
  /\ world.biomeMap = generated.biomeMap

\* ticks have changed the vegetation, the roster and the history
C6_Witness ==
  /\ world.tickCount > 1
  /\ world.vegetationMap # generated.vegetationMap
  /\ world.agents # generated.agents
  /\ Len(world.history) > 1

\* ---------------------------------------------------------------------
\* Two worlds of one configuration, and a third world beside them
\* ---------------------------------------------------------------------
OtherConfig ==
  [width |-> 3, height |-> 3, seed |-> 99, initialPopulation |-> 1,
   heightMap |-> NoHeightMap]

InitTwin ==
  /\ \E config \in Configs : Construct(config) /\ twin = NewWorld(config)
  /\ other = NoWorld
  /\ snapshot = NoSnapshot
  /\ restored = NoWorld
  /\ fresh = FALSE

\* world.tick(), at most MaxLag ticks ahead of twin
TickFirst ==
  /\ world.tickCount < MaxTwinTick
  /\ world.tickCount < twin.tickCount + MaxLag
  /\ TickWorld
  /\ UNCHANGED <<twin, other, snapshot, restored, fresh>>

\* twin.tick(), never ahead of world
TickTwin ==
  /\ twin.tickCount < world.tickCount
  /\ twin' = tick(twin)
  /\ UNCHANGED <<world, generated, seen, issued, other, snapshot, restored, fresh,
                 mathRandom, run, outcome, call>>

\* new World(OtherConfig)
ConstructOther ==
  /\ other = NoWorld
  /\ other' = NewWorld(OtherConfig)
  /\ UNCHANGED <<world, generated, seen, issued, twin, snapshot, restored, fresh,
                 mathRandom, run, outcome, call>>

\* other.tick()
TickOther ==
  /\ other # NoWorld
  /\ other.tickCount < MaxOther
  /\ other' = tick(other)
  /\ UNCHANGED <<world, generated, seen, issued, twin, snapshot, restored, fresh,
                 mathRandom, run, outcome, call>>

NextTwin == TickFirst \/ TickTwin \/ ConstructOther \/ TickOther

SpecTwin == InitTwin /\ [][NextTwin]_vars

TickSaved ==
  /\ snapshot # NoSnapshot => world.tickCount < snapshot.meta.tick + MaxResume
  /\ TickWorld
  /\ snapshot' = IF snapshot = NoSnapshot THEN snapshot
                 ELSE [snapshot EXCEPT !.history = world'.history]
  /\ UNCHANGED <<twin, other, restored, fresh>>

\* serializeWorld(world), every SnapEvery ticks
Save ==
  /\ snapshot = NoSnapshot
  /\ world.tickCount % SnapEvery = 0
  /\ snapshot' = serializeWorld(world)
  /\ UNCHANGED <<world, generated, seen, issued, twin, other, restored, fresh,
                 mathRandom, run, outcome, call>>

\* deserializeWorld(snapshot)
Load ==
  /\ snapshot # NoSnapshot
  /\ restored = NoWorld
  /\ restored' = deserializeWorld(snapshot)
  /\ fresh' = (snapshot.meta.tick = world.tickCount)
  /\ UNCHANGED <<world, generated, seen, issued, twin, other, snapshot,
                 mathRandom, run, outcome, call>>

\* restored.tick(), never ahead of world
TickRestored ==
  /\ restored # NoWorld
  /\ restored.tickCount < world.tickCount
  /\ restored' = tick(restored)
  /\ UNCHANGED <<world, generated, seen, issued, twin, other, snapshot, fresh,
                 mathRandom, run, outcome, call>>

\* the payload and the world built from it are dropped
Discard ==
  /\ restored # NoWorld
  /\ snapshot' = NoSnapshot
  /\ restored' = NoWorld
  /\ fresh' = FALSE
  /\ UNCHANGED <<world, generated, seen, issued, twin, other, mathRandom, run, outcome, call>>

NextSnap == TickSaved \/ Save \/ Load \/ TickRestored \/ Discard

SpecSnap == Init /\ [][NextSnap]_vars

\* C7: the world deserializeWorld builds from serializeWorld(world) has
\* world's tick, seed, dimensions, nextAgentId, RNG state, layers, flow,
\* roster and history, and world's checksum.
C7_RoundTrip ==
  (fresh /\ restored.tickCount = snapshot.meta.tick
         /\ world.tickCount = snapshot.meta.tick) =>
    /\ restored.tickCount = world.tickCount
    /\ restored.seed = world.seed
    /\ restored.width = world.width /\ restored.height = world.height
    /\ restored.nextAgentId = world.nextAgentId
    /\ restored.rng = world.rng
    /\ restored.heightMap = world.heightMap
    /\ restored.flow = world.flow /\ restored.isRiver = world.isRiver
    /\ restored.moistureMap = world.moistureMap
    /\ restored.biomeMap = world.biomeMap
    /\ restored.vegetationMap = world.vegetationMap
    /\ restored.agents = world.agents
    /\ restored.history = world.history
    /\ getChecksum(restored) = getChecksum(world)

\* a world was saved and loaded with hungry agents on regrown vegetation,
\* one of them waiting out its cooldown after a birth
C7_Witness ==
  /\ fresh
  /\ restored.tickCount = snapshot.meta.tick
  /\ world.tickCount = snapshot.meta.tick
  /\ world.vegetationMap # generated.vegetationMap
  /\ \E i \in 1..Len(restored.agents) :
        restored.agents[i].reproCooldown > 0 /\ restored.agents[i].hunger > 0

\* C8: a world loaded from a payload of world and ticked as many times as
\* world since is in world's state and has world's checksum.
C8_ResumeEquivalence ==
  (fresh /\ restored.tickCount = world.tickCount) =>
    /\ restored.seed = world.seed
    /\ restored.nextAgentId = world.nextAgentId
    /\ restored.rng = world.rng
    /\ restored.vegetationMap = world.vegetationMap
    /\ restored.agents = world.agents
    /\ restored.history = world.history
    /\ restored.heightMap = world.heightMap
    /\ restored.flow = world.flow /\ restored.isRiver = world.isRiver
    /\ restored.moistureMap = world.moistureMap
    /\ restored.biomeMap = world.biomeMap
    /\ getChecksum(restored) = getChecksum(world)

\* the loaded world and the original have both gone MaxResume ticks on,
\* drawing random numbers and handing out an id
C8_Witness ==
  /\ fresh
  /\ restored.tickCount = world.tickCount
  /\ restored.tickCount = snapshot.meta.tick + MaxResume
  /\ restored.rng # snapshot.rngState
  /\ restored.nextAgentId > snapshot.meta.nextAgentId

\* ---------------------------------------------------------------------
\* World.tick step by step, under the Math.random guard
\* ---------------------------------------------------------------------
\* a harness replaces Math.random by its own function before it drives
\* the world
StubRandom ==
  /\ run = NoRun
  /\ world.tickCount = 0
  /\ mathRandom = NATIVE
  /\ mathRandom' = STUB
  /\ UNCHANGED <<world, generated, seen, issued, twin, other, snapshot, restored,
                 fresh, run, outcome, call>>

\* World.tick up to the agent loop: Math.random is saved and replaced by
\* the throwing guard, the vegetation regrows, the roster is sorted.  A
\* run ends when a tick has thrown.
TickBegin ==
  /\ run = NoRun
  /\ outcome # THREW
  /\ world.tickCount < MaxTick
  /\ run' = [position |-> 1, originalRandom |-> mathRandom, acc |-> TickBody(world, 1)]
  /\ mathRandom' = GUARD
  /\ UNCHANGED <<world, generated, seen, issued, twin, other, snapshot, restored,
                 fresh, outcome, call>>

\* one iteration of the agent loop
TickAgent ==
  /\ run # NoRun
  /\ run.position <= Len(run.acc.agents)
  /\ run' = [run EXCEPT !.position = @ + 1,
                        !.acc = LoopStep(@, world.width, world.height, world.tickCount,
                                         run.position)]
  /\ UNCHANGED <<world, generated, seen, issued, twin, other, snapshot, restored,
                 fresh, mathRandom, outcome, call>>

\* the end of World.tick: the roster is replaced, the tick is counted,
\* and the finally block restores Math.random
TickFinish ==
  /\ run # NoRun
  /\ run.position > Len(run.acc.agents)
  /\ world' = TickEnd(world, run.acc)
  /\ seen' = run.acc.seen
  /\ issued' = issued \o Born(issued, run.acc.nextAgents)
  /\ mathRandom' = run.originalRandom
  /\ run' = NoRun
  /\ outcome' = RETURNED
  /\ call' = [op |-> "tick"]
  /\ UNCHANGED <<generated, twin, other, snapshot, restored, fresh>>

\* What a tick that throws leaves in the world: the loop's writes so far.
\* The vegetation, the RNG, nextAgentId and the history are written in
\* place, the roster is the sorted array with its agents as updated in
\* place; nextAgents is lost and the tick is not counted.
Interrupted(w, acc) ==
  [w EXCEPT !.vegetationMap = acc.veg, !.rng = acc.rng,
            !.nextAgentId = acc.nextAgentId, !.history = acc.history,
            !.agents = acc.agents]

\* RandomCalled without the finally block: the guard stays installed
RandomCalledNoFinally ==
  /\ run # NoRun
  /\ mathRandom = GUARD
  /\ world' = Interrupted(world, run.acc)
  /\ run' = NoRun
  /\ outcome' = THREW
  /\ call' = [op |-> "tick"]
  /\ UNCHANGED <<generated, seen, issued, twin, other, snapshot, restored, fresh,
                 mathRandom>>

\* Math.random() is called while the tick runs: the guard throws, the
\* error leaves tick through the finally block
RandomCalled ==
  /\ run # NoRun
  /\ mathRandom = GUARD
  /\ world' = Interrupted(world, run.acc)
  /\ mathRandom' = run.originalRandom
  /\ run' = NoRun
  /\ outcome' = THREW
  /\ call' = [op |-> "tick"]
  /\ UNCHANGED <<generated, seen, issued, twin, other, snapshot, restored, fresh>>

NextGuard == StubRandom \/ TickBegin \/ TickAgent \/ TickFinish \/ RandomCalled

SpecGuard == Init /\ [][NextGuard]_vars

\* C9: while a tick runs Math.random is the throwing guard; the tick
\* saves the function Math.random was when it was called, and when it
\* returns or throws Math.random is that function again.
C9_GuardInstalledAndRestored ==
  /\ [](run # NoRun => mathRandom = GUARD)
  /\ [][/\ (run = NoRun /\ run' # NoRun) => run'.originalRandom = mathRandom
        /\ (run # NoRun /\ run' = NoRun) => mathRandom' = run.originalRandom]_vars

\* a tick threw under a harness's stub, and the stub is back
C9_Witness ==
  /\ outcome = THREW
  /\ run = NoRun
  /\ mathRandom = STUB
  /\ world.tickCount > 0

\* C10: a tick that throws leaves the world as it was before the tick.
C10_AbortLeavesPreTickState == [][RandomCalled => world' = world]_vars

\* ---------------------------------------------------------------------
\* The roster array in another order
\* ---------------------------------------------------------------------
\* the orders a caller can give the roster array: reversed, or rotated
\* by one
Reversed(agents) == [i \in 1..Len(agents) |-> agents[Len(agents) + 1 - i]]
Rotated(agents) == [i \in 1..Len(agents) |-> agents[(i % Len(agents)) + 1]]

\* twin becomes a world in world's state whose roster array is in
\* another order
Permute ==
  /\ call.op # "permute"
  /\ Len(world.agents) >= 2
  /\ world.tickCount < MaxTwinTick
  /\ \E roster \in {Reversed(world.agents), Rotated(world.agents)} :
       twin' = [world EXCEPT !.agents = SubSeq(roster, 1, Len(roster))]
  /\ call' = [op |-> "permute"]
  /\ UNCHANGED <<world, generated, seen, issued, other, snapshot, restored, fresh,
                 mathRandom, run, outcome>>

\* world.tick() and twin.tick(), from the two orders
TickPermuted ==
  /\ call.op = "permute"
  /\ TickWorld
  /\ twin' = tick(twin)
  /\ UNCHANGED <<other, snapshot, restored, fresh>>

\* world.tick(), with no second world
TickAlone ==
  /\ call.op # "permute"
  /\ world.tickCount < MaxTwinTick
  /\ TickWorld
  /\ twin' = NoWorld
  /\ UNCHANGED <<other, snapshot, restored, fresh>>

NextOrder == Permute \/ TickPermuted \/ TickAlone

SpecOrder == Init /\ [][NextOrder]_vars

\* C11: a tick updates the agents in ascending id order whatever the
\* order of the roster array at its start: the worlds two ticks leave
\* from two orders of the same roster are the same.
C11_OrderIndependent ==
  /\ \A i, j \in 1..Len(seen) : i < j => seen[i].id < seen[j].id
  /\ (twin # NoWorld /\ call.op = "tick") => twin = world

\* three agents, given to the tick in two orders, have drawn from the RNG
C11_Witness ==
  /\ twin # NoWorld
  /\ call.op = "tick"
  /\ Len(seen) >= 3
  /\ twin.rng = world.rng
  /\ world.rng # generated.rng

\* ---------------------------------------------------------------------
\* Regenerating and querying one world
\* ---------------------------------------------------------------------
\* the seeds regenerate is called with
RegenSeeds == {0, 5}

\* world.tick(), at most MaxOpsTick times since the last generation
TickOps ==
  /\ world.tickCount < MaxOpsTick
  /\ TickWorld
  /\ UNCHANGED <<twin, other, snapshot, restored, fresh>>

\* world.regenerate(seed), within MaxRegenAt ticks of the last generation
Regenerate ==
  /\ world.tickCount > 0
  /\ world.tickCount <= MaxRegenAt
  /\ \E seed \in RegenSeeds :
       /\ world' = regenerate(world, seed)
       /\ call' = [op |-> "regenerate", seed |-> seed, before |-> world]
  /\ generated' = world'
  /\ seen' = <<>>
  /\ issued' = IdSeq(world'.agents)
  /\ outcome' = RETURNED
  /\ UNCHANGED <<twin, other, snapshot, restored, fresh, mathRandom, run>>

\* world.getChecksum(), at most twice in a row: what it returns and the
\* world it leaves
GetChecksum ==
  /\ ~(call.op = "getChecksum" /\ call.again)
  /\ \E sum \in {getChecksum(world)} :
       call' = [op |-> "getChecksum", result |-> sum, before |-> world,
                again |-> (call.op = "getChecksum"),
                previous |-> IF call.op = "getChecksum" THEN call.result ELSE sum]
  /\ world' = [world EXCEPT !.agents = SortedCopy(@).roster]
  /\ outcome' = RETURNED
  /\ UNCHANGED <<generated, seen, issued, twin, other, snapshot, restored, fresh,
                 mathRandom, run>>

NextOps == TickOps \/ Regenerate \/ GetChecksum

SpecOps == Init /\ [][NextOps]_vars

LayerNames == {"heightMap", "moistureMap", "biomeMap", "vegetationMap"}

\* the layer of a payload, decoded
DecodedLayer(data, name) ==
  IF name = "biomeMap" THEN decodeToUint8Array(data.layers[name])
  ELSE decodeToFloat32Array(data.layers[name])

\* the text of a layer of elements
EncodedLayer(name, elements) ==
  IF name = "biomeMap" THEN encodeUint8Array(elements) ELSE encodeFloat32Array(elements)

\* data with one layer an element shorter, or an element longer
Resized(data, name, by) ==
  [data EXCEPT !.layers[name] =
     EncodedLayer(name, IF by < 0 THEN SubSeq(DecodedLayer(data, name), 1,
                                             Len(DecodedLayer(data, name)) - 1)
                        ELSE Append(DecodedLayer(data, name), 1))]

\* data of another version with nothing else of a payload in it
Stripped(data, version) ==
  [data EXCEPT !.version = version, !.agents = <<>>, !.history = <<>>,
               !.layers = [name \in LayerNames |-> <<>>]]

\* the payloads made from data
Variants(data) ==
  {[data EXCEPT !.version = v] : v \in {0, 2}}
    \cup {Stripped(data, 2)}
    \cup {Resized(data, name, by) : name \in LayerNames, by \in {-1, 1}}

\* world.tick(), while no payload is held
TickLoad ==
  /\ snapshot = NoSnapshot
  /\ world.tickCount < MaxLoadTick
  /\ TickWorld
  /\ UNCHANGED <<twin, other, snapshot, restored, fresh>>

\* serializeWorld(world)
SaveNow ==
  /\ snapshot = NoSnapshot
  /\ snapshot' = serializeWorld(world)
  /\ call' = [op |-> "serializeWorld"]
  /\ UNCHANGED <<world, generated, seen, issued, twin, other, restored, fresh,
                 mathRandom, run, outcome>>

\* the payload is replaced by one made from it
Corrupt ==
  /\ call.op = "serializeWorld"
  /\ snapshot' \in Variants(snapshot)
  /\ call' = [op |-> "corrupt"]
  /\ UNCHANGED <<world, generated, seen, issued, twin, other, restored, fresh,
                 mathRandom, run, outcome>>

\* deserializeWorld(snapshot): restored is the world it returns, if it
\* returns one
LoadAny ==
  /\ call.op \in {"serializeWorld", "corrupt"}
  /\ \E result \in {deserializeWorld(snapshot)} :
       /\ restored' = IF "error" \in DOMAIN result THEN NoWorld ELSE result
       /\ outcome' = IF "error" \in DOMAIN result THEN THREW ELSE RETURNED
       /\ call' = [op |-> "deserializeWorld", data |-> snapshot,
                   threw |-> IF "error" \in DOMAIN result THEN result.error ELSE ""]
  /\ fresh' = (call.op = "serializeWorld")
  /\ UNCHANGED <<world, generated, seen, issued, twin, other, snapshot,
                 mathRandom, run>>

\* the payload and the world built from it are dropped
DiscardLoad ==
  /\ call.op = "deserializeWorld"
  /\ snapshot' = NoSnapshot
  /\ restored' = NoWorld
  /\ fresh' = FALSE
  /\ outcome' = RETURNED
  /\ call' = [op |-> "discard"]
  /\ UNCHANGED <<world, generated, seen, issued, twin, other, mathRandom, run>>

NextLoad == TickLoad \/ SaveNow \/ Corrupt \/ LoadAny \/ DiscardLoad

SpecLoad == Init /\ [][NextLoad]_vars

\* C13: deserializeWorld throws on a payload of another version,
\* whatever else the payload holds, and returns no world.
C13_VersionRejected ==
  (call.op = "deserializeWorld" /\ call.data.version # SERIALIZATION_VERSION) =>
    /\ call.threw = UnsupportedVersion.error
    /\ outcome = THREW
    /\ restored = NoWorld

\* a payload of another version with no layers and no agents in it was
\* rejected
C13_Witness ==
  /\ call.op = "deserializeWorld"
  /\ call.data.version # SERIALIZATION_VERSION
  /\ call.data.agents = <<>>
  /\ world.tickCount > 0
  /\ outcome = THREW

\* C14: deserializeWorld throws whenever a layer of the payload decodes
\* to another number of elements than width*height, and returns no world
\* with a layer filled in part.
C14_MalformedRejected ==
  (/\ call.op = "deserializeWorld"
   /\ call.data.version = SERIALIZATION_VERSION
   /\ \E name \in LayerNames :
         Len(DecodedLayer(call.data, name)) # call.data.meta.width * call.data.meta.height)
    => (outcome = THREW /\ restored = NoWorld)

\* C15: a payload serializeWorld returned is not changed by anything
\* done to the world afterwards, nor by a tick of a world loaded from it.
C15_SnapshotIsCopy ==
  [][(snapshot # NoSnapshot /\ snapshot' # NoSnapshot) => snapshot' = snapshot]_vars

\* C16: getChecksum leaves the world as it found it, the order of the
\* roster included, and called again at once returns the same result.
C16_ChecksumReadOnly ==
  call.op = "getChecksum" =>
    /\ world = call.before
    /\ call.again => call.result = call.previous

\* getChecksum was called twice on a world whose roster was not in id
\* order
C16_Witness ==
  /\ call.op = "getChecksum"
  /\ call.again
  /\ \E i \in 1..(Len(world.agents) - 1) : world.agents[i].id > world.agents[i + 1].id
  /\ call.result.tick = world.tickCount

\* ---------------------------------------------------------------------
\* Calls on the layers of a world
\* ---------------------------------------------------------------------
\* the worlds of at most 4 x 4 cells
InitGrid ==
  /\ \E config \in {c \in Configs : c.width <= 4} : Construct(config)
  /\ twin = NoWorld
  /\ other = NoWorld
  /\ snapshot = NoSnapshot
  /\ restored = NoWorld
  /\ fresh = FALSE

\* the coordinates the layers are called with: the grid and a margin
\* around it
ProbeX == -1..world.width
ProbeY == -1..world.height

\* the calls that have written to a layer of world so far
Writes == IF "writes" \in DOMAIN call THEN call.writes ELSE 0

\* get(x, y) of a layer, getFlow and getRiver of the flow map
ReadLayer(name, x, y) ==
  CASE name = "height" -> GridGet(world.heightMap, world.width, world.height, x, y)
    [] name = "moisture" -> GridGet(world.moistureMap, world.width, world.height, x, y)
    [] name = "vegetation" -> GridGet(world.vegetationMap, world.width, world.height, x, y)
    [] name = "flow" -> GridGet(world.flow, world.width, world.height, x, y)
    [] name = "river" -> getRiver(world.isRiver, world.width, world.height, x, y)
    [] name = "biome" -> BiomeGet(world.biomeMap, world.width, world.height, x, y)

\* a get on a layer of world as generate left it
GetCell ==
  /\ Writes = 0
  /\ \E name \in {"height", "moisture", "vegetation", "flow", "river", "biome"},
        x \in ProbeX, y \in ProbeY :
       call' = [op |-> "get", layer |-> name, x |-> x, y |-> y,
                result |-> ReadLayer(name, x, y), writes |-> Writes]
  /\ outcome' = RETURNED
  /\ UNCHANGED <<world, generated, seen, issued, twin, other, snapshot, restored,
                 fresh, mathRandom, run>>

\* world after set(x, y, value) on one of its layers
WrittenLayer(name, x, y, value) ==
  CASE name = "height" ->
         [world EXCEPT !.heightMap = GridSet(@, world.width, world.height, x, y, value)]
    [] name = "biome" ->
         [world EXCEPT !.biomeMap = GridSet(@, world.width, world.height, x, y, value)]
    [] name = "vegetation" ->
         [world EXCEPT !.vegetationMap = VegSet(@, world.width, world.height, x, y, value)]

\* a set on a layer of world
SetCell ==
  /\ Writes < MaxWrites
  /\ \E x \in ProbeX, y \in ProbeY :
     \E write \in {<<"height", 1500>>, <<"biome", FOREST>>,
                   <<"vegetation", 30000>>, <<"vegetation", 150000>>,
                   <<"vegetation", -50000>>} :
       /\ world' = WrittenLayer(write[1], x, y, write[2])
       /\ call' = [op |-> "set", layer |-> write[1], x |-> x, y |-> y,
                   value |-> write[2], before |-> world, writes |-> Writes + 1]
  /\ outcome' = RETURNED
  /\ UNCHANGED <<generated, seen, issued, twin, other, snapshot, restored, fresh,
                 mathRandom, run>>

\* the amounts consume is called with: 0, 0.010005, 0.2 and 2
ConsumeAmounts == {0, 1000 * Float32Step + 1, 20000 * Float32Step, 200000 * Float32Step}

\* vegetationMap.consume(x, y, amount) on world
ConsumeCell ==
  /\ Writes < MaxWrites
  /\ \E x \in ProbeX, y \in ProbeY, amount \in ConsumeAmounts :
     \E done \in {VegConsume(world.vegetationMap, world.width, world.height,
                              x, y, amount)} :
       /\ world' = [world EXCEPT !.vegetationMap = done.data]
       /\ call' = [op |-> "consume", x |-> x, y |-> y, amount |-> amount,
                   result |-> done.consumed, before |-> world, writes |-> Writes + 1]
  /\ outcome' = RETURNED
  /\ UNCHANGED <<generated, seen, issued, twin, other, snapshot, restored, fresh,
                 mathRandom, run>>

NextGrid == GetCell \/ SetCell \/ ConsumeCell

SpecGrid == InitGrid /\ [][NextGrid]_vars

\* the call was made on a cell of the grid
CallInGrid ==
  /\ call.x >= 0 /\ call.x <= world.width - 1
  /\ call.y >= 0 /\ call.y <= world.height - 1

\* C17: a get outside the grid returns the layer's default (0, Ocean for
\* the biome, false for the river), and a set outside the grid leaves
\* the world as it was.
C17_GridTotal ==
  /\ (call.op = "get" /\ ~CallInGrid) =>
        call.result = CASE call.layer = "biome" -> OCEAN
                        [] call.layer = "river" -> FALSE
                        [] OTHER -> 0
  /\ (call.op = "set" /\ ~CallInGrid) => world = call.before

\* the biome was read one column right of a row whose successor in the
\* array is not Ocean
C17_Witness ==
  /\ call.op = "get"
  /\ call.layer = "biome"
  /\ call.x = world.width
  /\ call.y = 0
  /\ world.biomeMap[world.width + 1] # OCEAN
  /\ call.result = OCEAN

LoneConfigs ==
  { [width |-> 4, height |-> 4, seed |-> 0, initialPopulation |-> 1,
     heightMap |-> NoHeightMap],
    [width |-> 3, height |-> 3, seed |-> 17, initialPopulation |-> 1,
     heightMap |-> PlateauTerrain] }

InitBarren ==
  /\ \E config \in LoneConfigs : Construct(config)
  /\ twin = NoWorld
  /\ other = NoWorld
  /\ snapshot = NoSnapshot
  /\ restored = NoWorld
  /\ fresh = FALSE

\* the map holds no vegetation
AllZero(veg) == \A i \in 1..Len(veg) : veg[i] = 0

\* the map of world held no vegetation at some point
WasZero ==
  \/ AllZero(world.vegetationMap)
  \/ ("wasZero" \in DOMAIN call /\ call.wasZero)

\* the roster of world is one live agent
Alone == Len(world.agents) = 1 /\ ~isDead(world.agents[1])

\* vegetation.data[i] = 0 for every i
ClearVegetation ==
  /\ ~WasZero
  /\ world.tickCount <= MaxClearAt
  /\ world' = [world EXCEPT !.vegetationMap = [i \in 1..Len(@) |-> 0]]
  /\ call' = [op |-> "clear", wasZero |-> TRUE]
  /\ outcome' = RETURNED
  /\ UNCHANGED <<generated, seen, issued, twin, other, snapshot, restored, fresh,
                 mathRandom, run>>

\* world.tick(); the call records the hunger of the first agent before
\* it and whether the map was empty when the agents were updated, that
\* is after updateVegetation
TickBarren ==
  /\ call.op # "update"
  /\ TickRuns
  /\ call' = [op |-> "tick", wasZero |-> WasZero, alone |-> Alone,
              hungerBefore |-> IF world.agents = <<>> THEN 0 ELSE world.agents[1].hunger,
              zeroAtUpdate |-> AllZero(updateVegetation(world.vegetationMap, world.biomeMap,
                                                         world.moistureMap, world.width,
                                                         world.height, world.tickCount))]
  /\ UNCHANGED <<twin, other, snapshot, restored, fresh>>

\* agent.update(vegetation, rng) called on the agent of world, outside
\* tick, on a map that was cleared
UpdateAlone ==
  /\ call.op \in {"clear", "update"}
  /\ Alone
  /\ \E u \in {update(world.agents[1], world.vegetationMap, world.width, world.height,
                       world.rng)} :
       /\ world' = [world EXCEPT !.agents = <<u.agent>>, !.vegetationMap = u.veg,
                                  !.rng = u.rng]
       /\ seen' = <<u.obs>>
  /\ call' = [op |-> "update", wasZero |-> WasZero, alone |-> Alone,
              hungerBefore |-> world.agents[1].hunger,
              zeroAtUpdate |-> AllZero(world.vegetationMap)]
  /\ outcome' = RETURNED
  /\ UNCHANGED <<generated, issued, twin, other, snapshot, restored, fresh,
                 mathRandom, run>>

NextBarren == ClearVegetation \/ TickBarren \/ UpdateAlone

SpecBarren == InitBarren /\ [][NextBarren]_vars

\* C19: once the map held no vegetation, every tick (and every update)
\* of a lone live agent leaves its hunger strictly above its hunger
\* before.
C19_HungerRises ==
  (call.op \in {"tick", "update"} /\ call.wasZero /\ call.alone) =>
    seen[1].after.hunger > call.hungerBefore

\* C19, amended: when the map holds no vegetation as the lone live agent
\* is updated (in a tick: after updateVegetation), the update leaves its
\* hunger strictly above its hunger before.
C19_HungerRisesOnZeroMap ==
  (call.op \in {"tick", "update"} /\ call.zeroAtUpdate /\ call.alone) =>
    seen[1].after.hunger > call.hungerBefore

\* the agent starved in a tick of a world whose map stayed empty
C19_Witness ==
  /\ call.op = "tick"
  /\ call.zeroAtUpdate
  /\ call.alone
  /\ isDead(seen[1].after)
  /\ seen[1].after.hunger > call.hungerBefore

\* ---------------------------------------------------------------------
\* Positions
\* ---------------------------------------------------------------------
\* the position lies on the grid of world: 0 <= x <= width - 1 and
\* 0 <= y <= height - 1
OnGrid(a) ==
  /\ a.x >= 0 /\ a.x <= (world.width - 1) * Milli
  /\ a.y >= 0 /\ a.y <= (world.height - 1) * Milli

\* C20: after every Agent.update, and for every agent of the roster
\* after every tick, the agent's position satisfies 0 <= x <= width - 1
\* and 0 <= y <= height - 1.
C20_PositionOnGrid ==
  /\ \A i \in 1..Len(world.agents) : OnGrid(world.agents[i])
  /\ \A k \in 1..Len(seen) : OnGrid(seen[k].after)

\* an update whose handler left the agent off the grid ended with the
\* agent on its edge
C20_Witness ==
  \E k \in 1..Len(seen) :
    /\ seen[k].ran
    /\ ~isDead(seen[k].after)
    /\ ~OnGrid(seen[k].atGate)
    /\ OnGrid(seen[k].after)
    /\ \E i \in 1..Len(world.agents) : world.agents[i].id = seen[k].id

\* ---------------------------------------------------------------------
\* Energy
\* ---------------------------------------------------------------------
\* 0 <= energy <= maxEnergy
EnergyInRange(a) == a.energy >= 0 /\ a.energy <= a.maxEnergy

\* C21: after every tick every agent of the roster has
\* 0 <= energy <= maxEnergy; so has a parent after reproduce and an agent
\* as the update that killed it left it.
C21_EnergyInRange ==
  /\ \A i \in 1..Len(world.agents) : EnergyInRange(world.agents[i])
  /\ \A k \in 1..Len(seen) : EnergyInRange(seen[k].after)

\* an agent whose energy the decay had floored at 0 was killed by its
\* update
C21_Witness ==
  \E k \in 1..Len(seen) :
    /\ seen[k].ran
    /\ isDead(seen[k].after)
    /\ seen[k].after.energy = 0

\* a parent stands in the roster with the energy reproduce left it
ParentInRoster ==
  \E k \in 1..Len(seen), i \in 1..Len(world.agents) :
    /\ seen[k].after.state = REPRODUCING
    /\ world.agents[i].id = seen[k].id
    /\ world.agents[i].energy = seen[k].after.energy - ENERGY_REQUIRED

\* ---------------------------------------------------------------------
\* generateHeightMap on small grids
\* ---------------------------------------------------------------------
\* generateHeightMap({ width, height, seed }) for the widths and heights
\* 1..MaxSide and the seeds 0..MaxSeed
GenerateHeights ==
  /\ \E w \in 1..MaxSide, h \in 1..MaxSide, seed \in 0..MaxSeed :
       call' = [op |-> "generateHeightMap", width |-> w, height |-> h, seed |-> seed,
                result |-> generateHeightMap(w, h, seed)]
  /\ outcome' = RETURNED
  /\ UNCHANGED <<world, generated, seen, issued, twin, other, snapshot, restored,
                 fresh, mathRandom, run>>

NextHeight == GenerateHeights

SpecHeight == InitGrid /\ [][NextHeight]_vars

\* C22: every value of the layer generateHeightMap returns lies in
\* [0, 1], whatever the seed and the size of the grid.
C22_HeightsInUnit ==
  call.op = "generateHeightMap" =>
    \A i \in 1..Len(call.result) : call.result[i] >= 0 /\ call.result[i] <= Milli

\* ---------------------------------------------------------------------
\* The initial population
\* ---------------------------------------------------------------------
\* height maps handed to the constructor: below the ocean line
\* everywhere, and ocean and land alternating like a chessboard
OceanTerrain(w, h) == [data |-> [i \in 1..(w * h) |-> 100], locationName |-> "Ocean"]
ShoreTerrain(w, h) ==
  [data |-> [i \in 1..(w * h) |-> IF (CellX(w, i) + CellY(w, i)) % 2 = 0 THEN 100 ELSE 500],
   locationName |-> "Shore"]

\* the height maps the constructor is handed for a w x h world
Terrains(w, h) == {NoHeightMap, OceanTerrain(w, h), ShoreTerrain(w, h)}

SpawnConfigs ==
  UNION { { [width |-> w, height |-> h, seed |-> seed, initialPopulation |-> population,
             heightMap |-> terrain] :
              seed \in {0, 5, 11}, population \in 0..MaxPopulation,
              terrain \in Terrains(w, h) } :
          w \in 1..MaxSide, h \in 1..MaxSide }

InitSpawn ==
  /\ \E config \in SpawnConfigs : Construct(config)
  /\ twin = NoWorld
  /\ other = NoWorld
  /\ snapshot = NoSnapshot
  /\ restored = NoWorld
  /\ fresh = FALSE

\* world.regenerate(seed) on a world that has not ticked
GenerateAgain ==
  /\ call.op = "new World"
  /\ \E seed \in RegenSeeds :
       /\ world' = regenerate(world, seed)
       /\ call' = [op |-> "regenerate", seed |-> seed, before |-> world]
  /\ generated' = world'
  /\ seen' = <<>>
  /\ issued' = IdSeq(world'.agents)
  /\ outcome' = RETURNED
  /\ UNCHANGED <<twin, other, snapshot, restored, fresh, mathRandom, run>>

NextSpawn == GenerateAgain

SpecSpawn == InitSpawn /\ [][NextSpawn]_vars

\* the initial population loop of generate on the biome layer and the
\* seed of a world
Seeding(self) ==
  SpawnAgents(self.biomeMap, self.width, self.height, self.initialPopulation,
              1, MAX_SPAWN_ATTEMPTS,
              [agents |-> <<>>, nextAgentId |-> 1, rng |-> RngSeed(self.seed),
               attempts |-> 0])

\* C23: the initial population loop ends within MAX_SPAWN_ATTEMPTS
\* attempts with k <= initialPopulation agents, each on a cell that is
\* not ocean, with the ids 1..k in creation order and nextAgentId = k + 1;
\* on a map that is all ocean the roster is empty.
C23_SeedingBounded ==
  \E acc \in {Seeding(generated)} :
    /\ acc.attempts <= MAX_SPAWN_ATTEMPTS
    /\ Len(acc.agents) = generated.initialPopulation \/ acc.attempts = MAX_SPAWN_ATTEMPTS
    /\ generated.agents = acc.agents
    /\ Len(generated.agents) <= generated.initialPopulation
    /\ \A i \in 1..Len(generated.agents) :
         /\ generated.agents[i].id = i
         /\ generated.biomeMap[(generated.agents[i].y \div Milli) * generated.width
                                + (generated.agents[i].x \div Milli) + 1] # OCEAN
    /\ generated.nextAgentId = Len(generated.agents) + 1
    /\ (\A c \in 1..Len(generated.biomeMap) : generated.biomeMap[c] = OCEAN)
          => generated.agents = <<>>

\* a world with ocean and land whose loop rejected attempts and still
\* filled the population
C23_Witness ==
  /\ \E c \in 1..Len(generated.biomeMap) : generated.biomeMap[c] = OCEAN
  /\ Len(generated.agents) = generated.initialPopulation
  /\ Len(generated.agents) >= 2
  /\ Seeding(generated).attempts > Len(generated.agents)

\* on a map that is all ocean the loop used every attempt
AllOceanExhausts ==
  /\ generated.initialPopulation > 0
  /\ \A c \in 1..Len(generated.biomeMap) : generated.biomeMap[c] = OCEAN
  /\ generated.agents = <<>>
  /\ Seeding(generated).attempts = MAX_SPAWN_ATTEMPTS

\* ---------------------------------------------------------------------
\* The history log
\* ---------------------------------------------------------------------
\* the log before is the beginning of the log after
IsPrefix(before, after) ==
  /\ Len(before) <= Len(after)
  /\ \A i \in 1..Len(before) : after[i] = before[i]

\* C24: every tick leaves the log it found as the beginning of the log
\* it leaves, and a step that does not is a generate (here: regenerate).
C24_HistoryAppendOnly ==
  [][/\ call'.op = "tick" => IsPrefix(world.history, world'.history)
     /\ ~IsPrefix(world.history, world'.history) => call'.op = "regenerate"]_vars

\* a tick has appended a death or a spawn to a log of several events
C24_Witness ==
  /\ call.op = "tick"
  /\ Len(world.history) >= 3
  /\ world.history[Len(world.history)].tick = world.tickCount - 1
  /\ world.history[Len(world.history)].type \in {AGENT_DEATH, AGENT_SPAWN}

\* ---------------------------------------------------------------------
\* A SeededRNG and its clone
\* ---------------------------------------------------------------------
\* the state a SeededRNG of a seed holds after n calls of next()
RECURSIVE RngAfter(_, _)
RngAfter(s, n) == IF n = 0 THEN s ELSE RngAfter(RngNext(s).state, n - 1)

\* the value the n-th next() returns from state s on
RngDraw(s, n) == RngNext(RngAfter(s, n - 1)).value

\* new SeededRNG(seed), some calls of next(), then clone(); the call
\* keeps the store, the two handles, the state at cloning, and for each
\* handle the values next() has returned since and whether setState was
\* called on it
CloneRng ==
  /\ call.op = "new World"
  /\ \E seed \in 0..MaxSeed, n \in 0..MaxDraws :
     \E made \in {RngClone(<<RngAfter(RngSeed(seed), n)>>, 1)} :
       call' = [op |-> "clone", store |-> made.store, original |-> 1,
                clone |-> made.handle, at |-> RngAfter(RngSeed(seed), n),
                drawn |-> [who \in {"original", "clone"} |-> <<>>],
                set |-> [who \in {"original", "clone"} |-> FALSE]]
  /\ outcome' = RETURNED
  /\ UNCHANGED <<world, generated, seen, issued, twin, other, snapshot, restored,
                 fresh, mathRandom, run>>

\* next() on the original or on the clone
NextOnOne ==
  /\ call.op \in {"clone", "next", "setState"}
  /\ \E who \in {"original", "clone"} :
       /\ Len(call.drawn[who]) < MaxDraws
       /\ \E r \in {RngNext(call.store[call[who]])} :
            call' = [call EXCEPT !.op = "next",
                                 !.store[call[who]] = r.state,
                                 !.drawn[who] = Append(@, r.value)]
  /\ outcome' = RETURNED
  /\ UNCHANGED <<world, generated, seen, issued, twin, other, snapshot, restored,
                 fresh, mathRandom, run>>

\* setState(state) on the original or on the clone, once
SetStateOnOne ==
  /\ call.op \in {"clone", "next"}
  /\ \E who \in {"original", "clone"}, state \in {0, 12345} :
       /\ ~call.set["original"] /\ ~call.set["clone"]
       /\ call' = [call EXCEPT !.op = "setState",
                                !.store[call[who]] = RngSetState(@, state),
                                !.set[who] = TRUE]
  /\ outcome' = RETURNED
  /\ UNCHANGED <<world, generated, seen, issued, twin, other, snapshot, restored,
                 fresh, mathRandom, run>>

NextRng == CloneRng \/ NextOnOne \/ SetStateOnOne

SpecRng == InitGrid /\ [][NextRng]_vars

\* C25: from cloning on, the original and the clone return the same
\* values from next(), and a next() or a setState on one leaves the other
\* where its own calls have brought it.
C25_CloneIndependent ==
  call.op \in {"clone", "next", "setState"} =>
    \A who \in {"original", "clone"} :
      ~call.set[who] =>
        /\ \A i \in 1..Len(call.drawn[who]) : call.drawn[who][i] = RngDraw(call.at, i)
        /\ call.store[call[who]] = RngAfter(call.at, Len(call.drawn[who]))

\* both have drawn, the original more often, and setState was called on
\* the original
C25_Witness ==
  /\ call.op = "next"
  /\ call.set["original"]
  /\ Len(call.drawn["clone"]) >= 2
  /\ Len(call.drawn["original"]) > Len(call.drawn["clone"])
  /\ call.store[call.original] # call.store[call.clone]

\* ---------------------------------------------------------------------
\* checksumAgents on a roster in every order
\* ---------------------------------------------------------------------
\* the orders of n elements
Orders(n) == {f \in [1..n -> 1..n] : \A i, j \in 1..n : f[i] = f[j] => i = j}

\* checksumAgents(agents) on the roster of world in some order; the call
\* keeps the array it was given, the array as it left it, its result and
\* the result for the roster as world holds it
ChecksumShuffled ==
  /\ \E order \in Orders(Len(world.agents)) :
     \E given \in {[i \in 1..Len(world.agents) |-> world.agents[order[i]]]} :
       call' = [op |-> "checksumAgents", given |-> given,
                left |-> SortedCopy(given).roster,
                result |-> checksumAgents(given),
                reference |-> checksumAgents(world.agents)]
  /\ outcome' = RETURNED
  /\ UNCHANGED <<world, generated, seen, issued, twin, other, snapshot, restored,
                 fresh, mathRandom, run>>

NextSum == ChecksumShuffled

SpecSum == InitSpawn /\ [][NextSum]_vars

RowsRegrown ==
  {y \in 0..(world.height - 1) :
     \E x \in 0..(world.width - 1) :
       updateVegetation(world.vegetationMap, world.biomeMap, world.moistureMap,
                        world.width, world.height, world.tickCount)[Idx(world.width, x, y)]
         # world.vegetationMap[Idx(world.width, x, y)]}

\* the rows regrown by the ticks before this one, oldest first
Recent == IF "rows" \in DOMAIN call THEN call.rows ELSE <<>>

\* the last entries of a sequence, at most n
LastOf(seq, n) == IF Len(seq) <= n THEN seq ELSE SubSeq(seq, Len(seq) - n + 1, Len(seq))

\* world.tick(); the call keeps the tick counter and the map it found,
\* the map as updateVegetation left it, and the rows regrown by this
\* tick and the three before it
TickStrided ==
  /\ world.tickCount < MaxStrideTick
  /\ TickRuns
  /\ call' = [op |-> "tick", wasZero |-> WasZero, t |-> world.tickCount,
              before |-> world.vegetationMap,
              regrown |-> updateVegetation(world.vegetationMap, world.biomeMap,
                                           world.moistureMap, world.width, world.height,
                                           world.tickCount),
              rows |-> LastOf(Append(Recent, RowsRegrown), 4)]
  /\ UNCHANGED <<twin, other, snapshot, restored, fresh>>

\* vegetation.data[i] = 0 for every i, between two ticks
ClearBetweenTicks ==
  /\ ~WasZero
  /\ world.tickCount <= MaxClearAt
  /\ world' = [world EXCEPT !.vegetationMap = [i \in 1..Len(@) |-> 0]]
  /\ call' = [op |-> "clear", wasZero |-> TRUE, rows |-> Recent]
  /\ outcome' = RETURNED
  /\ UNCHANGED <<generated, seen, issued, twin, other, snapshot, restored, fresh,
                 mathRandom, run>>

NextStride == TickStrided \/ ClearBetweenTicks

SpecStride == Init /\ [][NextStride]_vars

\* C27: the regrowth of the tick run at counter t changes only cells of
\* rows y with y % 4 = t % 4; in those rows every cell that can grow does;
\* and no row is regrown twice by 4 consecutive ticks.
C27_StridedRegrowth ==
  (call.op = "tick" /\ "regrown" \in DOMAIN call) =>
    /\ \A i \in 1..Len(call.before) :
         ((i - 1) \div world.width) % 4 # call.t % 4 => call.regrown[i] = call.before[i]
    /\ \A i \in 1..Len(call.before) :
         ( /\ ((i - 1) \div world.width) % 4 = call.t % 4
           /\ call.before[i] < MAX_DENSITY(world.biomeMap[i])
           /\ Regrowth(world.biomeMap[i], world.moistureMap[i], call.before[i]) > 0 )
         => call.regrown[i] > call.before[i]
    /\ \A j, k \in 1..Len(call.rows) : j # k => call.rows[j] \cap call.rows[k] = {}
    /\ \A j \in 1..Len(call.rows) :
         \A y \in call.rows[j] : y % 4 = (call.t - (Len(call.rows) - j)) % 4

\* four ticks in a row have regrown rows of a world of more than four
\* rows, the last of them two rows at once
C27_Witness ==
  /\ call.op = "tick"
  /\ "regrown" \in DOMAIN call
  /\ world.height > 4
  /\ Len(call.rows) = 4
  /\ \A j \in 1..4 : call.rows[j] # {}
  /\ Cardinality(call.rows[4]) >= 2

\* ---------------------------------------------------------------------
\* calculateFlow cell by cell
\* ---------------------------------------------------------------------
\* the heights of the maps calculateFlow is run on
FlowHeights == {200, 500, 800}

\* calculateFlow(heightMap) up to its accumulation loop, on every map of
\* up to 3 x 2 cells with heights in FlowHeights; the call keeps the map,
\* the sorted cells, the number of cells visited, the flow values, and the
\* flow values before the last visit
StartFlow ==
  /\ call.op = "new World"
  /\ \E w \in 1..3, h \in 1..2 :
     \E heights \in [1..(w * h) -> FlowHeights] :
       call' = [op |-> "calculateFlow", width |-> w, height |-> h, heights |-> heights,
                order |-> SubSeq(SortedCells(heights), 1, w * h), visited |-> 0,
                flow |-> [i \in 1..(w * h) |-> 1],
                before |-> [i \in 1..(w * h) |-> 1]]
  /\ outcome' = RETURNED
  /\ UNCHANGED <<world, generated, seen, issued, twin, other, snapshot, restored,
                 fresh, mathRandom, run>>

\* one iteration of the accumulation loop
VisitCell ==
  /\ call.op = "calculateFlow"
  /\ call.visited < Len(call.order)
  /\ call' = [call EXCEPT !.visited = @ + 1,
                          !.before = call.flow,
                          !.flow = FlowStep(call.heights, call.width, call.height,
                                            call.order, call.visited + 1, call.flow)]
  /\ outcome' = RETURNED
  /\ UNCHANGED <<world, generated, seen, issued, twin, other, snapshot, restored,
                 fresh, mathRandom, run>>

NextFlow == StartFlow \/ VisitCell

SpecFlow == InitGrid /\ [][NextFlow]_vars

\* the cells among the 8 around cell i that lie on the map and are
\* strictly lower than it
LowerAround(i) ==
  {j \in 1..Len(call.heights) :
     /\ j # i
     /\ Abs(CellX(call.width, j) - CellX(call.width, i)) <= 1
     /\ Abs(CellY(call.width, j) - CellY(call.width, i)) <= 1
     /\ call.heights[j] < call.heights[i]}

\* the cells whose flow the last visit changed
Fed == {i \in 1..Len(call.flow) : call.flow[i] # call.before[i]}

\* C28: the cells are visited in non-increasing height order; a visited
\* cell with a strictly lower neighbour adds its flow to exactly one
\* strictly lower neighbour, any other adds nothing; no cell is fed by a
\* visit once it has been visited itself; every flow value is at least 1
\* and none decreases.
C28_FlowSinglePass ==
  (call.op = "calculateFlow" /\ call.visited > 0) =>
    LET source == call.order[call.visited]
    IN /\ \A k \in 1..(Len(call.order) - 1) :
            call.heights[call.order[k]] >= call.heights[call.order[k + 1]]
       /\ \A i \in 1..Len(call.order) : \E k \in 1..Len(call.order) : call.order[k] = i
       /\ IF LowerAround(source) = {}
          THEN Fed = {}
          ELSE \E target \in LowerAround(source) :
                 /\ Fed = {target}
                 /\ call.flow[target] = call.before[target] + call.before[source]
       /\ \A k \in 1..call.visited : call.order[k] \notin Fed
       /\ \A i \in 1..Len(call.flow) : call.flow[i] >= 1 /\ call.flow[i] >= call.before[i]

\* a cell that had been fed itself passed its flow on to a lower cell
C28_Witness ==
  /\ call.op = "calculateFlow"
  /\ call.visited > 0
  /\ call.before[call.order[call.visited]] >= 2
  /\ \E target \in Fed : call.flow[target] >= 4

\* ---------------------------------------------------------------------
\* classifyBiome on heights and moistures around its thresholds
\* ---------------------------------------------------------------------
HeightSamples == {-100, 0, 299, 300, 349, 350, 500, 650, 651, 800, 801, 1000, 1500}
MoistureSamples == {-100, 0, 299, 300, 450, 600, 601, 1000, 1100}

\* classifyBiome(height, moisture)
Classify ==
  /\ \E height \in HeightSamples, moisture \in MoistureSamples :
       call' = [op |-> "classifyBiome", height |-> height, moisture |-> moisture,
                result |-> classifyBiome(height, moisture)]
  /\ outcome' = RETURNED
  /\ UNCHANGED <<world, generated, seen, issued, twin, other, snapshot, restored,
                 fresh, mathRandom, run>>

NextBiome == Classify

SpecBiome == InitGrid /\ [][NextBiome]_vars

\* C29: classifyBiome returns one of the 7 biomes: Ocean below height
\* 0.3, Beach from 0.3 to below 0.35, Snow above 0.8, Mountain above 0.65
\* up to 0.8, and from 0.35 to 0.65 Desert for moisture below 0.3, Forest
\* for moisture above 0.6, Plains between; below height 0.35 and above
\* 0.65 the moisture has no part in it.
C29_BiomeCascade ==
  call.op = "classifyBiome" =>
    LET hgt == call.height
        m == call.moisture
        middle == hgt >= 350 /\ hgt <= 650
    IN /\ call.result \in {OCEAN, BEACH, PLAINS, FOREST, DESERT, MOUNTAIN, SNOW}
       /\ call.result = OCEAN <=> hgt < 300
       /\ call.result = BEACH <=> (hgt >= 300 /\ hgt < 350)
       /\ call.result = SNOW <=> hgt > 800
       /\ call.result = MOUNTAIN <=> (hgt > 650 /\ hgt <= 800)
       /\ call.result = DESERT <=> (middle /\ m < 300)
       /\ call.result = FOREST <=> (middle /\ m > 600)
       /\ call.result = PLAINS <=> (middle /\ m >= 300 /\ m <= 600)
       /\ ~middle => \A wet \in MoistureSamples : classifyBiome(hgt, wet) = call.result

\* a wet cell above the snow line is Snow
C29_Witness ==
  /\ call.op = "classifyBiome"
  /\ call.height = 801
  /\ call.moisture = 601
  /\ call.result = SNOW

\* ---------------------------------------------------------------------
\* calculateMoisture on maps with rivers laid out by hand
\* ---------------------------------------------------------------------
\* a strip longer than the search radius and a square
MoistureGrids == {<<20, 1>>, <<4, 4>>}

\* calculateMoisture(heightMap, flowMap), once, on a map where every
\* third cell is just above height 0.6 and the others at it, with up to
\* two river cells
Moisten ==
  /\ call.op # "calculateMoisture"
  /\ \E grid \in MoistureGrids, phase \in {0, 1, 2} :
     \E a, b \in 1..(grid[1] * grid[2]), some \in BOOLEAN :
     \E heights \in {[i \in 1..(grid[1] * grid[2]) |-> IF i % 3 = phase THEN 601 ELSE 600]},
        isRiver \in {[i \in 1..(grid[1] * grid[2]) |->
                        IF some /\ i \in {a, b} THEN 1 ELSE 0]} :
       call' = [op |-> "calculateMoisture", width |-> grid[1], height |-> grid[2],
                heights |-> heights, isRiver |-> isRiver,
                result |-> calculateMoisture(heights, isRiver, grid[1], grid[2])]
  /\ outcome' = RETURNED
  /\ UNCHANGED <<world, generated, seen, issued, twin, other, snapshot, restored,
                 fresh, mathRandom, run>>

NextMoisture == Moisten

SpecMoisture == InitGrid /\ [][NextMoisture]_vars

\* the square of the distance from cell i to the nearest river cell of
\* the call, in cells; the square of the radius when none is nearer
NearestSquared(i) ==
  LET squares == {(CellX(call.width, j) - CellX(call.width, i))
                    * (CellX(call.width, j) - CellX(call.width, i))
                  + (CellY(call.width, j) - CellY(call.width, i))
                    * (CellY(call.width, j) - CellY(call.width, i)) :
                  j \in {k \in 1..Len(call.isRiver) : call.isRiver[k] = 1}}
                 \cup {15 * 15}
  IN CHOOSE d \in squares : \A e \in squares : d <= e

\* C30: a cell with no river cell nearer than the radius has moisture 0;
\* a river cell has 1, or half of it above height 0.6; among cells on the
\* same side of height 0.6 the moisture does not increase with the
\* distance to the nearest river cell and is the same at the same
\* distance; a cell above 0.6 has half the moisture of a cell at the same
\* distance that is not; every moisture is within [0, 1].
C30_MoistureByDistance ==
  call.op = "calculateMoisture" =>
    \A i \in 1..Len(call.result) :
      /\ call.result[i] >= 0 /\ call.result[i] <= Milli
      /\ NearestSquared(i) = 15 * 15 => call.result[i] = 0
      /\ call.isRiver[i] = 1 =>
            call.result[i] = IF call.heights[i] > 600 THEN Milli \div 2 ELSE Milli
      /\ \A j \in 1..Len(call.result) :
           /\ ( /\ (call.heights[i] > 600) = (call.heights[j] > 600)
                /\ NearestSquared(i) <= NearestSquared(j) )
              => call.result[i] >= call.result[j]
           /\ ( /\ call.heights[i] > 600
                /\ ~(call.heights[j] > 600)
                /\ NearestSquared(i) = NearestSquared(j) )
              => call.result[i] = call.result[j] \div 2

\* a strip with one river cell, a cell beyond the radius dry and a cell
\* above 0.6 next to the river half as moist as its neighbour across
C30_Witness ==
  /\ call.op = "calculateMoisture"
  /\ call.width = 20
  /\ call.isRiver[3] = 1
  /\ \A k \in 1..20 : k # 3 => call.isRiver[k] = 0
  /\ call.result[19] = 0
  /\ call.result[17] > 0
  /\ call.heights[2] > 600
  /\ call.heights[4] <= 600
  /\ call.result[2] > 0
  /\ call.result[2] = call.result[4] \div 2

\* ---------------------------------------------------------------------
\* handleForaging on small vegetation maps
\* ---------------------------------------------------------------------
\* the senseRadius values of the first generation: the default, and what
\* mutate makes of it in the RNG states 0 .. 3 * MaxSeed
SenseRadii ==
  {SENSE_RADIUS} \cup {mutate(SENSE_RADIUS, RngSeed(s)).val : s \in 0..(3 * MaxSeed)}

\* a square within every window and a strip reaching beyond it
ForageGrids == {<<3, 2>>, <<7, 1>>}

\* the vegetation values of the maps: none, between the 0.02 and 0.12
\* thresholds (on the square only), plenty
VegLevels(w) == IF w = 3 THEN {0, 3000, 50000} ELSE {0, 50000}

\* agent.update reaching handleForaging(vegetation, rng), once, for a
\* hungry agent in state FORAGING
Forage ==
  /\ call.op # "handleForaging"
  /\ \E grid \in ForageGrids, radius \in SenseRadii, x \in {0, 1000, 1600},
        rng \in {RngSeed(1), RngSeed(2)} :
     \E veg \in [1..(grid[1] * grid[2]) -> VegLevels(grid[1])] :
     \E a \in {[NewAgent(1, x, 0, 40000, 0, SPEED, radius) EXCEPT !.state = FORAGING]} :
       call' = [op |-> "handleForaging", agent |-> a, veg |-> veg,
                width |-> grid[1], height |-> grid[2], rng |-> rng,
                result |-> handleForaging(a, veg, grid[1], grid[2], rng)]
  /\ outcome' = RETURNED
  /\ UNCHANGED <<world, generated, seen, issued, twin, other, snapshot, restored,
                 fresh, mathRandom, run>>

NextForage == Forage

SpecForage == InitGrid /\ [][NextForage]_vars

\* the in-bounds cells of the sense-radius window of the call's agent
\* that hold vegetation above 0.02
Qualifying ==
  {c \in (0..(call.width - 1)) \X (0..(call.height - 1)) :
     /\ (c[1] - call.agent.x \div Milli) * Milli <= call.agent.senseRadius
     /\ (call.agent.x \div Milli - c[1]) * Milli <= call.agent.senseRadius
     /\ (c[2] - call.agent.y \div Milli) * Milli <= call.agent.senseRadius
     /\ (call.agent.y \div Milli - c[2]) * Milli <= call.agent.senseRadius
     /\ call.veg[Idx(call.width, c[1], c[2])] > 2000}

\* vegetation / (1 + distance) of cell c seen from the agent's cell
ScoreOf(c) ==
  Score(call.veg[Idx(call.width, c[1], c[2])],
        (c[1] - call.agent.x \div Milli) * Milli,
        (c[2] - call.agent.y \div Milli) * Milli)

\* C31: a Foraging agent on a cell with vegetation below 0.12 steps
\* towards a cell of its window that maximises vegetation/(1+distance)
\* among those above 0.02, or turns to Eating when that cell is closer
\* than 0.5, and roams in a drawn direction only when no cell of the
\* window qualifies, whatever senseRadius mutation gave it.
C31_ForagingStep ==
  ( /\ call.op = "handleForaging"
    /\ call.veg[Idx(call.width, call.agent.x \div Milli, call.agent.y \div Milli)] < 12000 )
  => IF Qualifying = {}
     THEN call.result = Roam(call.agent, RngNext(call.rng))
     ELSE \E c \in Qualifying :
            /\ \A d \in Qualifying : ScoreOf(c) >= ScoreOf(d)
            /\ call.result = Approach(call.agent, c[1] * Milli - call.agent.x,
                                      c[2] * Milli - call.agent.y,
                                      Hypot(c[1] * Milli - call.agent.x,
                                            c[2] * Milli - call.agent.y),
                                      call.rng)

\* the same for the agents whose senseRadius is a whole number of cells
C31_ForagingStepWholeRadius ==
  (call.op = "handleForaging" /\ call.agent.senseRadius % Milli = 0) => C31_ForagingStep

\* ---------------------------------------------------------------------
\* reproduce on its own
\* ---------------------------------------------------------------------
\* agent.reproduce(nextId, rng), once, on an agent with traits at, near
\* and well above the floor, in the RNG states 0 .. 8 * MaxSeed
Reproduce ==
  /\ call.op # "reproduce"
  /\ \E energy \in {0, 20000, ENERGY_REQUIRED, MAX_ENERGY},
        speed \in {100, 200, SPEED}, senseRadius \in {100, SENSE_RADIUS},
        nextId \in 2..3, rng \in 0..(8 * MaxSeed) :
     \E a \in {[NewAgent(1, 1300, 700, 10000, energy, speed, senseRadius)
                   EXCEPT !.state = REPRODUCING]} :
       call' = [op |-> "reproduce", agent |-> a, nextId |-> nextId, rng |-> rng,
                result |-> reproduce(a, nextId, rng)]
  /\ outcome' = RETURNED
  /\ UNCHANGED <<world, generated, seen, issued, twin, other, snapshot, restored,
                 fresh, mathRandom, run>>

NextReproduce == Reproduce

SpecReproduce == InitGrid /\ [][NextReproduce]_vars

\* a trait of the offspring against the parent's: equal, or within
\* MUTATION_AMOUNT of it, and not below 0.1
Inherited(child, parent) ==
  /\ child >= 100
  /\ child - parent <= MUTATION_AMOUNT
  /\ parent - child <= MUTATION_AMOUNT

\* C32: reproduce leaves the parent with energy max(0, energy -
\* ENERGY_REQUIRED), reproCooldown COOLDOWN_TICKS and state Idle, and
\* returns an offspring with id nextId, the parent's position, hunger 30,
\* energy 0, state Idle, and speed and senseRadius within MUTATION_AMOUNT
\* of the parent's and not below 0.1.
C32_ReproduceEffects ==
  call.op = "reproduce" =>
    /\ call.result.parent.energy =
         (IF call.agent.energy > ENERGY_REQUIRED
          THEN call.agent.energy - ENERGY_REQUIRED ELSE 0)
    /\ call.result.parent.reproCooldown = COOLDOWN_TICKS
    /\ call.result.parent.state = IDLE
    /\ call.result.offspring.id = call.nextId
    /\ call.result.offspring.x = call.agent.x
    /\ call.result.offspring.y = call.agent.y
    /\ call.result.offspring.hunger = 30000
    /\ call.result.offspring.energy = 0
    /\ call.result.offspring.state = IDLE
    /\ Inherited(call.result.offspring.speed, call.agent.speed)
    /\ Inherited(call.result.offspring.senseRadius, call.agent.senseRadius)

\* a reproduce that paid the energy and whose offspring's speed mutated
\* down onto the floor
C32_Witness ==
  /\ call.op = "reproduce"
  /\ call.agent.energy = MAX_ENERGY
  /\ call.result.parent.energy = MAX_ENERGY - ENERGY_REQUIRED
  /\ call.agent.speed = 200
  /\ call.result.offspring.speed = 100

\* ---------------------------------------------------------------------
\* The roster between ticks
\* ---------------------------------------------------------------------
\* C33: after every tick no agent of the roster is in state DEAD and none
\* is in state REPRODUCING.
C33_NoTransientState ==
  call.op = "tick" =>
    \A i \in 1..Len(world.agents) : world.agents[i].state \notin {DEAD, REPRODUCING}

\* a tick in which one update ended in REPRODUCING and the roster holds
\* that agent in state IDLE
C33_Witness ==
  /\ call.op = "tick"
  /\ \E k \in 1..Len(seen) :
       /\ seen[k].after.state = REPRODUCING
       /\ \E i \in 1..Len(world.agents) :
            /\ world.agents[i].id = seen[k].id
            /\ world.agents[i].state = IDLE

\* a tick in which an update ended in DEAD and the roster no longer holds
\* that agent
DeadLeftRoster ==
  /\ call.op = "tick"
  /\ \E k \in 1..Len(seen) :
       /\ seen[k].after.state = DEAD
       /\ \A i \in 1..Len(world.agents) : world.agents[i].id # seen[k].id

\* ---------------------------------------------------------------------
\* Population accounting
\* ---------------------------------------------------------------------
\* the number of events of one type in the history, over all ticks or
\* logged at one tick
Logged(type) ==
  Cardinality({i \in 1..Len(world.history) : world.history[i].type = type})
LoggedAt(type, t) ==
  Cardinality({i \in 1..Len(world.history) :
                 world.history[i].type = type /\ world.history[i].tick = t})

\* the number of updates of the last tick that ended in one state
Ended(state) ==
  Cardinality({k \in 1..Len(seen) : seen[k].ran /\ seen[k].after.state = state})

\* C34: the roster holds the agents generate created, plus one per
\* agent-spawned event, minus one per agent-died event; nextAgentId is 1
\* plus the agents generate created plus the agent-spawned events; and a
\* tick logs one event for each death and one for each birth in it.
C34_PopulationAccounting ==
  /\ Len(world.agents) =
       Len(generated.agents) + Logged(AGENT_SPAWN) - Logged(AGENT_DEATH)
  /\ world.nextAgentId = 1 + Len(generated.agents) + Logged(AGENT_SPAWN)
  /\ call.op = "tick" =>
       /\ LoggedAt(AGENT_DEATH, world.tickCount - 1) = Ended(DEAD)
       /\ LoggedAt(AGENT_SPAWN, world.tickCount - 1) = Ended(REPRODUCING)

\* a tick with a birth in a world that has logged more than one, the
\* roster grown by as many
C34_Witness ==
  /\ call.op = "tick"
  /\ Ended(REPRODUCING) > 0
  /\ Logged(AGENT_SPAWN) > 1
  /\ Len(world.agents) = Len(generated.agents) + Logged(AGENT_SPAWN)

\* a tick with a death, the roster shrunk by the deaths logged
DeathsAccounted ==
  /\ call.op = "tick"
  /\ Ended(DEAD) > 0
  /\ Len(world.agents) = Len(generated.agents) - Logged(AGENT_DEATH)

\* ---------------------------------------------------------------------
\* The tick of a birth
\* ---------------------------------------------------------------------
\* the positions of the roster whose agent no update of the last tick
\* ran on: the offspring of that tick
Newborn ==
  {i \in 1..Len(world.agents) :
     call.op = "tick" /\ \A k \in 1..Len(seen) : seen[k].id # world.agents[i].id}

\* every offspring of the last tick is as reproduce built it, at the
\* position its parent, the next agent of the roster, had when its update
\* ended in REPRODUCING
NewbornUntouched ==
  \A i \in Newborn :
    /\ world.agents[i].hunger = 30000
    /\ world.agents[i].energy = 0
    /\ world.agents[i].reproCooldown = 0
    /\ world.agents[i].state = IDLE
    /\ i < Len(world.agents)
    /\ \E k \in 1..Len(seen) :
         /\ seen[k].id = world.agents[i + 1].id
         /\ seen[k].after.state = REPRODUCING
         /\ world.agents[i].x = seen[k].after.x
         /\ world.agents[i].y = seen[k].after.y

\* a tick runs one update on every agent of the roster it starts with,
\* and on no other
RosterUpdated ==
  call'.op = "tick" =>
    /\ Len(seen') = Len(world.agents)
    /\ \A i \in 1..Len(world.agents) :
         \E k \in 1..Len(seen') : seen'[k].id = world.agents[i].id /\ seen'[k].ran

\* C35: an offspring is not updated in the tick of its birth: at the end
\* of that tick it has hunger 30, energy 0, reproCooldown 0, state Idle
\* and the position its parent had when reproduce was called, and no
\* update (the only place an agent draws from the RNG) has run on it;
\* the following tick updates it.
C35_OffspringNotUpdated == [](NewbornUntouched) /\ [][RosterUpdated]_vars

\* an offspring stands in the roster at the end of the tick of its birth
C35_Witness ==
  /\ Newborn # {}
  /\ \E i \in Newborn : world.agents[i].id = world.nextAgentId - 1

\* ---------------------------------------------------------------------
\* The spacing of births
\* ---------------------------------------------------------------------
\* the positions in the history of the births by one parent
BirthsBy(id) ==
  {i \in 1..Len(world.history) :
     /\ world.history[i].type = AGENT_SPAWN
     /\ world.history[i].details = <<"Parent", id>>}

\* world.agents[0].energy = world.agents[0].maxEnergy, on a new world:
\* the agent can afford two births without eating in between
Endow ==
  /\ call.op = "new World"
  /\ world.agents # <<>>
  /\ world' = [world EXCEPT !.agents[1].energy = world.agents[1].maxEnergy]
  /\ call' = [op |-> "endow"]
  /\ outcome' = RETURNED
  /\ UNCHANGED <<generated, seen, issued, twin, other, snapshot, restored, fresh,
                 mathRandom, run>>

\* world.tick() on the world of the endowed agent
TickEndowed ==
  /\ call.op # "new World"
  /\ world.tickCount < MaxSpacingTick
  /\ TickWorld
  /\ UNCHANGED <<twin, other, snapshot, restored, fresh>>

NextSpacing == Endow \/ TickEndowed

SpecSpacing == Init /\ [][NextSpacing]_vars

\* C36: two births by the same agent lie at least COOLDOWN_TICKS ticks
\* apart.
C36_CooldownSpacing ==
  \A id \in 1..(world.nextAgentId - 1) :
    \A i, j \in BirthsBy(id) :
      i < j => world.history[j].tick >= world.history[i].tick + COOLDOWN_TICKS

\* an agent that could afford a second birth at once has given birth
\* twice
C36_Witness ==
  /\ call.op = "tick"
  /\ \E id \in 1..(world.nextAgentId - 1) :
       /\ Cardinality(BirthsBy(id)) >= 2
       /\ \E k \in 1..Len(seen) :
            /\ seen[k].id = id
            /\ seen[k].after.state = REPRODUCING

\* ---------------------------------------------------------------------
\* Flow conservation
\* ---------------------------------------------------------------------
\* the sum of the call's flow values over a set of cells
RECURSIVE FlowOver(_)
FlowOver(cells) ==
  IF cells = {} THEN 0
  ELSE LET c == CHOOSE i \in cells : TRUE
       IN call.flow[c] + FlowOver(cells \ {c})

\* the cell that cell j drains into: the first of its lowest strictly
\* lower neighbours in the scan order of calculateFlow; j itself if none
DrainOf(j) ==
  LET low == LowestNeighbor(call.heights, call.width, call.height,
                            CellX(call.width, j), CellY(call.width, j), 1,
                            <<CellX(call.width, j), CellY(call.width, j), call.heights[j]>>)
  IN Idx(call.width, low[1], low[2])

\* the accumulation loop of the call has run to its end
FlowDone == call.op = "calculateFlow" /\ call.visited = Len(call.order)

\* C37: after calculateFlow the flow values of the cells with no strictly
\* lower neighbour add up to width * height, every other cell drains into
\* one strictly lower neighbour, and every cell's flow is 1 plus the
\* flows of the cells that drain into it.
C37_FlowConservation ==
  FlowDone =>
    /\ call.flow = calculateFlow(call.heights, call.width, call.height).flow
    /\ FlowOver({i \in 1..Len(call.flow) : LowerAround(i) = {}})
         = call.width * call.height
    /\ \A j \in 1..Len(call.flow) :
         IF LowerAround(j) = {} THEN DrainOf(j) = j ELSE DrainOf(j) \in LowerAround(j)
    /\ \A i \in 1..Len(call.flow) :
         call.flow[i] = 1 + FlowOver({j \in 1..Len(call.flow) : j # i /\ DrainOf(j) = i})

\* a finished map of six cells with two sinks, one of them fed through a
\* cell that was fed itself
C37_Witness ==
  /\ FlowDone
  /\ Len(call.flow) = 6
  /\ Cardinality({i \in 1..6 : LowerAround(i) = {}}) = 2
  /\ \E i, j \in 1..6 :
       /\ LowerAround(i) = {}
       /\ j # i
       /\ DrainOf(j) = i
       /\ call.flow[j] >= 2
       /\ call.flow[i] >= 4

\* ---------------------------------------------------------------------
\* The operations of Agent on an agent in state DEAD
\* ---------------------------------------------------------------------
\* the calls made so far on the agent of world
HeldCalls == IF "calls" \in DOMAIN call THEN call.calls ELSE 0

\* agent.update(world.vegetationMap, world.rng) on the agent of world
UpdateHeld ==
  /\ HeldCalls < MaxHeldCalls
  /\ world.agents # <<>>
  /\ \E u \in {update(world.agents[1], world.vegetationMap, world.width, world.height,
                       world.rng)} :
       /\ world' = [world EXCEPT !.agents[1] = u.agent, !.vegetationMap = u.veg,
                                  !.rng = u.rng]
       /\ seen' = <<u.obs>>
  /\ call' = [op |-> "update", calls |-> HeldCalls + 1]
  /\ outcome' = RETURNED
  /\ UNCHANGED <<generated, issued, twin, other, snapshot, restored, fresh,
                 mathRandom, run>>

\* agent.kill(cause) on the agent of world
KillHeld ==
  /\ HeldCalls < MaxHeldCalls
  /\ world.agents # <<>>
  /\ world' = [world EXCEPT !.agents[1] = kill(@, "Starvation")]
  /\ call' = [op |-> "kill", calls |-> HeldCalls + 1]
  /\ outcome' = RETURNED
  /\ UNCHANGED <<generated, seen, issued, twin, other, snapshot, restored, fresh,
                 mathRandom, run>>

\* agent.reproduce(world.nextAgentId, world.rng) on the agent of world;
\* the offspring is dropped
ReproduceHeld ==
  /\ HeldCalls < MaxHeldCalls
  /\ world.agents # <<>>
  /\ \E r \in {reproduce(world.agents[1], world.nextAgentId, world.rng)} :
       world' = [world EXCEPT !.agents[1] = r.parent, !.rng = r.rng]
  /\ call' = [op |-> "reproduce", calls |-> HeldCalls + 1]
  /\ outcome' = RETURNED
  /\ UNCHANGED <<generated, seen, issued, twin, other, snapshot, restored, fresh,
                 mathRandom, run>>

NextHeld == UpdateHeld \/ KillHeld \/ ReproduceHeld

SpecHeld == InitBarren /\ [][NextHeld]_vars

\* the agent of world is in state DEAD
HeldDead == world.agents # <<>> /\ isDead(world.agents[1])

\* update on an agent in state DEAD changes no field of it, draws nothing
\* and changes no vegetation
DeadUpdateInert ==
  [][(HeldDead /\ call'.op = "update") => world' = world]_vars

\* C38: update on an agent in state DEAD changes none of its fields,
\* draws nothing from the RNG and changes no vegetation, and no operation
\* moves an agent out of DEAD.
C38_DeadIsTerminal ==
  [][HeldDead =>
       /\ isDead(world'.agents[1])
       /\ call'.op = "update" => world' = world]_vars

====
